---- MODULE Spec2Model ----
(***************************************************************************)
(* Docker registry explorer (dcr): the TTL cache (cacheService.ts), the    *)
(* registry service built on it (registryService.ts), and the React hooks  *)
(* and handlers that drive them (useDockerRegistry.ts, useAuth.ts, App).   *)
(*                                                                         *)
(* Time is counted in minutes: Date.now() is `now`, and the millisecond    *)
(* constants of the source (5 * 60 * 1000, ...) are written in minutes.    *)
(*                                                                         *)
(* JavaScript values are boxed records, so that null, strings and arrays   *)
(* can be told apart: Null, Str("a"), Arr(<<"a", "b">>).  An optional      *)
(* argument is <<>> when it is omitted (undefined) and <<x>> when given.   *)
(***************************************************************************)
EXTENDS Integers, Sequences, FiniteSets, TLC

VARIABLES
    cache,      \* CacheService.cache: Map<string, CacheItem>, a function key -> item
    now,        \* Date.now(), in minutes
    ret,        \* the last operation and what it returned
    wc,         \* the withCache calls in progress, one per caller
    q,          \* a pair of requests and the cache keys generated for them
    call,       \* the registry-service calls, one per caller
    signal,     \* per caller, whether its AbortSignal is aborted
    lastFetch,  \* the catalog last fetched and stored since the last clear
    app,        \* the state of App: useAuth and useDockerRegistry
    size,       \* the calculateCumulativeImageSize call and its accumulators
    del,        \* the deleteImageTag call made by ImageDetails.handleDeleteTag
    calc        \* a manifest as the registry sent it, and its calculateImageSize

cacheVars == <<cache, now, ret, wc>>
keyVars == <<q>>
fetchVars == <<call, signal, lastFetch>>
appVars == <<app>>
sizeVars == <<size, del, calc>>

vars == <<cacheVars, keyVars, fetchVars, appVars, sizeVars>>

\* what the operations of the cache leave alone
outsideCache == <<keyVars, fetchVars, appVars, sizeVars>>

----------------------------------------------------------------------------
(* Bounds of the model *)

MaxTime == 3
MaxClock == 6
MaxTags == 2
MaxSizeCalls == 2
MaxLateClock == 16
MaxDeletes == 2

----------------------------------------------------------------------------
(* JavaScript values *)

Null == [type |-> "null"]
Str(s) == [type |-> "string", value |-> s]
Arr(s) == [type |-> "array", items |-> s]

Undefined == <<>>
Some(x) == <<x>>

----------------------------------------------------------------------------
(* cacheService.ts *)

\* apiCache = new CacheService({ ttl: 10 * 60 * 1000, prefix: 'docker-registry:' })
defaultTTL == 10
keyPrefix == "docker-registry:"

BoolText(b) == IF b THEN "true" ELSE "false"

\* JSON.stringify of the params object { tags, accountForSharedLayers }; the
\* strings of the model hold no quote or backslash, so none is escaped.
Stringify(params) ==
    "{\"tags\":\"" \o params.tags \o "\",\"accountForSharedLayers\":"
        \o BoolText(params.accountForSharedLayers) \o "}"

GenerateKey(url, params) ==
    IF params # Undefined
    THEN keyPrefix \o url \o ":" \o Stringify(params[1])
    ELSE keyPrefix \o url

MapSet(m, key, item) ==
    [k \in DOMAIN m \cup {key} |-> IF k = key THEN item ELSE m[k]]

MapDelete(m, key) == [k \in DOMAIN m \ {key} |-> m[k]]

EmptyMap == [k \in {} |-> Null]

ExpiredAtExpiry(item, t) == t >= item.expiresAt

Expired(item, t) == t > item.expiresAt

\* get: the value returned
GetValue(m, url, params, t) ==
    LET key == GenerateKey(url, params) IN
    IF key \notin DOMAIN m THEN Null
    ELSE IF Expired(m[key], t) THEN Null
    ELSE m[key].data

\* get: the map it leaves (an expired item is deleted)
GetCache(m, url, params, t) ==
    LET key == GenerateKey(url, params) IN
    IF key \in DOMAIN m /\ Expired(m[key], t) THEN MapDelete(m, key) ELSE m

\* ttl || this.defaultTTL: undefined and 0 are falsy
TtlOrDefault(ttl) ==
    IF ttl = Undefined \/ ttl[1] = 0 THEN defaultTTL ELSE ttl[1]

SetIfAbsent(m, url, data, params, ttl, t) ==
    IF GenerateKey(url, params) \in DOMAIN m THEN m
    ELSE MapSet(m, GenerateKey(url, params),
                [data |-> data, timestamp |-> t, expiresAt |-> t + TtlOrDefault(ttl)])

Set(m, url, data, params, ttl, t) ==
    MapSet(m, GenerateKey(url, params),
           [data |-> data, timestamp |-> t, expiresAt |-> t + TtlOrDefault(ttl)])

Remove(m, url, params) == MapDelete(m, GenerateKey(url, params))

ClearOnlyExpired(m) == [k \in {j \in DOMAIN m : now <= m[j].expiresAt} |-> m[k]]

Clear(m) == EmptyMap

ExpiredKeys(m, t) == {k \in DOMAIN m : t > m[k].expiresAt}

ClearExpired(m, t) == [k \in DOMAIN m \ ExpiredKeys(m, t) |-> m[k]]

----------------------------------------------------------------------------
(* registryService.ts: the urls and ttls of the cached requests *)

CACHE_TTL_CATALOG == 5
CACHE_TTL_TAGS == 2
CACHE_TTL_MANIFEST == 10
CACHE_TTL_CUMULATIVE == 15

CatalogUrl == "/api/v2/_catalog"
TagsUrl(imageName) == "/api/v2/" \o imageName \o "/tags/list"
ManifestUrl(imageName, tag) == "/api/v2/" \o imageName \o "/manifests/" \o tag
CumulativeUrl(imageName) == "/api/v2/" \o imageName \o "/cumulative-size"

\* tags.join(',')
RECURSIVE Join(_)
Join(tags) ==
    IF tags = <<>> THEN ""
    ELSE IF Len(tags) = 1 THEN tags[1]
    ELSE tags[1] \o "," \o Join(Tail(tags))

\* { tags: tags.join(','), accountForSharedLayers }
CumulativeParams(tags, accountForSharedLayers) ==
    Some([tags |-> Join(tags), accountForSharedLayers |-> accountForSharedLayers])

\* the key withCache is given by each cached function of the service
RequestKey(r) ==
    CASE r.kind = "catalog" -> GenerateKey(CatalogUrl, Undefined)
      [] r.kind = "tags" -> GenerateKey(TagsUrl(r.name), Undefined)
      [] r.kind = "manifest" -> GenerateKey(ManifestUrl(r.name, r.tag), Undefined)
      [] r.kind = "cumulative" ->
            GenerateKey(CumulativeUrl(r.name),
                        CumulativeParams(r.tags, r.accountForSharedLayers))

----------------------------------------------------------------------------
(* The requests, values and ttl arguments the cache is exercised with *)

Requests ==
    { <<"/api/v2/_catalog", Undefined>>,
      <<"/api/v2/a/cumulative-size",
        Some([tags |-> "1,2", accountForSharedLayers |-> TRUE])>> }

Values == {Null, Str("a"), Str("b")}

TtlArgs == {Undefined, Some(0), Some(1), Some(2)}

\* the ttl arguments of the withCache calls: the registry service passes one of
\* its CACHE_TTL constants, all positive
WcTtlArgs == {Undefined, Some(1), Some(2)}

WCallers == {"w1", "w2"}

\* the request the withCache calls are made for
WcRequest == <<"/api/v2/_catalog", Undefined>>

KeyOf(r) == GenerateKey(r[1], r[2])

\* the item the Map holds under a request's key, <<>> when it holds none
ItemOf(m, r) == IF KeyOf(r) \in DOMAIN m THEN Some(m[KeyOf(r)]) ELSE Undefined


----------------------------------------------------------------------------
(* Key generation for pairs of requests of the service *)

ImageNames == {"a", "b"}

\* tag names as a registry may answer them; "1,2" is one tag
TagNames == {"1", "2", "1,2"}

RECURSIVE SeqsUpTo(_, _)
SeqsUpTo(S, n) ==
    IF n = 0 THEN {<<>>}
    ELSE LET shorter == SeqsUpTo(S, n - 1)
         IN  shorter \cup {Append(x, e) : x \in shorter, e \in S}

ServiceRequests ==
    {[kind |-> "catalog"]}
    \cup {[kind |-> "tags", name |-> n] : n \in ImageNames}
    \cup {[kind |-> "manifest", name |-> n, tag |-> t] : n \in ImageNames, t \in TagNames}
    \cup {[kind |-> "cumulative", name |-> n, tags |-> ts, accountForSharedLayers |-> f] :
            n \in ImageNames, ts \in SeqsUpTo(TagNames, MaxTags), f \in BOOLEAN}

NoQuery == [phase |-> "none"]

InitKeys == q = NoQuery

\* two requests are chosen
InitKeyPairs ==
    \E a \in ServiceRequests, b \in ServiceRequests :
        q = [phase |-> "requests", a |-> a, b |-> b, keyA |-> "", keyB |-> ""]

\* each is given its cache key
GenerateKeys ==
    /\ q.phase = "requests"
    /\ q' = [q EXCEPT !.phase = "keys",
                      !.keyA = RequestKey(q.a), !.keyB = RequestKey(q.b)]
    /\ UNCHANGED <<cacheVars, fetchVars, appVars, sizeVars>>


----------------------------------------------------------------------------
(* The registry service: fetchImageCatalog, fetchImageTags, fetchAllImages *)

FCallers == {"f1"}

Catalogs == {<<>>, <<"a">>, <<"b", "a">>}
TagLists == {<<>>, <<"1">>, <<"2", "10">>}
Statuses == {404, 500}

\* what the registry answers: a 2xx response and its JSON body (the field may be
\* missing), a non-2xx status, or a request that fails in transport
CatalogResponses ==
    {[kind |-> "ok", body |-> Some(r)] : r \in Catalogs}
    \cup {[kind |-> "ok", body |-> Undefined]}
    \cup {[kind |-> "status", status |-> st] : st \in Statuses}
    \cup {[kind |-> "network"]}

TagsResponses ==
    {[kind |-> "ok", body |-> Some(t)] : t \in TagLists}
    \cup {[kind |-> "ok", body |-> Undefined]}
    \cup {[kind |-> "status", status |-> st] : st \in Statuses}
    \cup {[kind |-> "network"]}

\* fetch rejecting because its signal is aborted
AbortResponse == [kind |-> "abort"]
NoResponse == [kind |-> "none"]
CachedResponse(v) == [kind |-> "cached", body |-> Some(v)]

AbortError == [name |-> "AbortError"]
RegistryApiError(status) == [name |-> "RegistryApiError", status |-> status]
PlainError == [name |-> "Error"]
NoError == [name |-> "none"]

\* the function fetchImageCatalog and fetchImageTags hand to withCache: the
\* value it resolves with, or the error it rejects with
FetchComputeWrapped(resp) ==
    CASE resp.kind = "ok" ->
            [ok |-> TRUE, error |-> NoError,
             value |-> Arr(IF resp.body = Undefined THEN <<>> ELSE resp.body[1])]
      [] resp.kind = "abort" ->
            [ok |-> FALSE, error |-> AbortError, value |-> Null]
      [] OTHER ->
            [ok |-> FALSE, error |-> PlainError, value |-> Null]

FetchCompute(resp) ==
    CASE resp.kind = "ok" ->
            [ok |-> TRUE, error |-> NoError,
             value |-> Arr(IF resp.body = Undefined THEN <<>> ELSE resp.body[1])]
      [] resp.kind = "status" ->
            [ok |-> FALSE, error |-> RegistryApiError(resp.status), value |-> Null]
      [] resp.kind = "abort" ->
            [ok |-> FALSE, error |-> AbortError, value |-> Null]
      [] resp.kind = "network" ->
            [ok |-> FALSE, error |-> PlainError, value |-> Null]

\* after is history, kept by FetchStart: how the caller's call before this one
\* ended
IdleF ==
    [pc |-> "idle", op |-> "none", startedAt |-> 0, prior |-> Undefined,
     requested |-> FALSE, catalogResp |-> NoResponse, catalog |-> Null,
     tasks |-> <<>>, result |-> <<>>, error |-> NoError, tokenAborted |-> FALSE,
     after |-> "other"]

InFlight(rec) == rec.pc \in {"catalog", "tags"}

\* one callback of repositories.map, up to its await
TaskStart(m, repo, aborted) ==
    LET cached == GetValue(m, TagsUrl(repo), Undefined, now) IN
    IF aborted
    THEN [st |-> "aborted", name |-> repo, tags |-> <<>>, resp |-> NoResponse,
          error |-> AbortError]
    ELSE IF cached # Null
    THEN [st |-> "done", name |-> repo, tags |-> cached.items,
          resp |-> CachedResponse(cached.items), error |-> NoError]
    ELSE [st |-> "inflight", name |-> repo, tags |-> <<>>, resp |-> NoResponse,
          error |-> NoError]

\* the callback once fetchImageTags has settled
TaskRethrowAll(task, resp) ==
    IF FetchCompute(resp).ok
    THEN [task EXCEPT !.st = "done", !.resp = resp,
                      !.tags = FetchCompute(resp).value.items]
    ELSE [task EXCEPT !.st = "aborted", !.resp = resp,
                      !.error = FetchCompute(resp).error]

TaskSettle(task, resp) ==
    LET outcome == FetchCompute(resp) IN
    IF outcome.ok
    THEN [task EXCEPT !.st = "done", !.resp = resp, !.tags = outcome.value.items]
    ELSE IF outcome.error.name = "AbortError"
    THEN [task EXCEPT !.st = "aborted", !.resp = resp, !.error = outcome.error]
    ELSE [task EXCEPT !.st = "done", !.resp = resp, !.tags = <<>>,
                      !.error = outcome.error]

\* the lookups of the tag lists made by the callbacks
RECURSIVE FanOutCache(_, _, _)
FanOutCache(m, repos, aborted) ==
    IF aborted \/ repos = <<>> THEN m
    ELSE FanOutCache(GetCache(m, TagsUrl(Head(repos)), Undefined, now),
                     Tail(repos), aborted)

\* await Promise.all(imagesPromises), and the catch around it
AwaitAll(rec, aborted) ==
    IF \E i \in DOMAIN rec.tasks : rec.tasks[i].st = "aborted"
    THEN [rec EXCEPT !.pc = "aborted", !.error = AbortError, !.tokenAborted = aborted]
    ELSE IF \E i \in DOMAIN rec.tasks : rec.tasks[i].st = "inflight"
    THEN [rec EXCEPT !.pc = "tags"]
    ELSE [rec EXCEPT !.pc = "returned", !.tokenAborted = aborted,
                     !.result = [i \in DOMAIN rec.tasks |->
                                    [name |-> rec.tasks[i].name,
                                     tags |-> rec.tasks[i].tags]]]

\* the call once fetchImageCatalog has resolved with repos
AfterCatalog(m, rec, repos, aborted) ==
    IF rec.op = "catalog"
    THEN [cache |-> m,
          call |-> [rec EXCEPT !.pc = "returned", !.catalog = Arr(repos),
                               !.result = repos, !.tokenAborted = aborted]]
    ELSE [cache |-> FanOutCache(m, repos, aborted),
          call |-> AwaitAll([rec EXCEPT !.catalog = Arr(repos),
                                        !.tasks = [i \in 1 .. Len(repos) |->
                                                      TaskStart(m, repos[i], aborted)]],
                            aborted)]

\* fetchImageCatalog / fetchAllImages up to the first await that suspends
StartCallUncached(m, op, aborted, prior) ==
    LET rec == [IdleF EXCEPT !.op = op, !.startedAt = now, !.prior = prior]
    IN  IF aborted
        THEN [cache |-> m,
              call |-> [rec EXCEPT !.pc = "aborted", !.requested = TRUE,
                                   !.catalogResp = AbortResponse,
                                   !.error = AbortError, !.tokenAborted = TRUE]]
        ELSE [cache |-> m, call |-> [rec EXCEPT !.pc = "catalog", !.requested = TRUE]]

StartCall(m, op, aborted, prior) ==
    LET cached == GetValue(m, CatalogUrl, Undefined, now)
        m1 == GetCache(m, CatalogUrl, Undefined, now)
        rec == [IdleF EXCEPT !.op = op, !.startedAt = now, !.prior = prior]
    IN  IF cached # Null
        THEN AfterCatalog(m1, [rec EXCEPT !.catalogResp = CachedResponse(cached.items)],
                          cached.items, aborted)
        ELSE IF aborted
        THEN [cache |-> m1,
              call |-> [rec EXCEPT !.pc = "aborted", !.requested = TRUE,
                                   !.catalogResp = AbortResponse,
                                   !.error = AbortError, !.tokenAborted = TRUE]]
        ELSE [cache |-> m1, call |-> [rec EXCEPT !.pc = "catalog", !.requested = TRUE]]

\* the catalog request settles
OnCatalogResponseUncached(m, rec, resp, aborted) ==
    LET outcome == FetchCompute(resp)
        got == [rec EXCEPT !.catalogResp = resp]
    IN  IF outcome.ok
        THEN AfterCatalog(m, got, outcome.value.items, aborted)
        ELSE [cache |-> m,
              call |-> [got EXCEPT !.error = outcome.error, !.tokenAborted = aborted,
                                   !.pc = IF outcome.error.name = "AbortError"
                                          THEN "aborted" ELSE "failed"]]

OnCatalogResponseStoringFailure(m, rec, resp, aborted) ==
    LET outcome == FetchCompute(resp)
        got == [rec EXCEPT !.catalogResp = resp]
    IN  IF outcome.ok
        THEN AfterCatalog(Set(m, CatalogUrl, outcome.value, Undefined,
                              Some(CACHE_TTL_CATALOG), now),
                          got, outcome.value.items, aborted)
        ELSE [cache |-> Set(m, CatalogUrl, Arr(<<>>), Undefined,
                            Some(CACHE_TTL_CATALOG), now),
              call |-> [got EXCEPT !.error = outcome.error, !.tokenAborted = aborted,
                                   !.pc = IF outcome.error.name = "AbortError"
                                          THEN "aborted" ELSE "failed"]]

OnCatalogResponse(m, rec, resp, aborted) ==
    LET outcome == FetchCompute(resp)
        got == [rec EXCEPT !.catalogResp = resp]
    IN  IF outcome.ok
        THEN AfterCatalog(Set(m, CatalogUrl, outcome.value, Undefined,
                              Some(CACHE_TTL_CATALOG), now),
                          got, outcome.value.items, aborted)
        ELSE [cache |-> m,
              call |-> [got EXCEPT !.error = outcome.error, !.tokenAborted = aborted,
                                   !.pc = IF outcome.error.name = "AbortError"
                                          THEN "aborted" ELSE "failed"]]

\* the tags request of the i-th repository settles
OnTagsResponseFailFast(m, rec, i, resp, aborted) ==
    LET outcome == FetchCompute(resp)
        settled == [rec EXCEPT !.tasks[i] = TaskSettle(rec.tasks[i], resp)]
        cancelled == [j \in DOMAIN settled.tasks |->
                         IF j # i /\ settled.tasks[j].st = "inflight"
                         THEN [settled.tasks[j] EXCEPT !.st = "aborted",
                                                       !.error = AbortError]
                         ELSE settled.tasks[j]]
    IN  [cache |-> IF outcome.ok
                   THEN Set(m, TagsUrl(rec.tasks[i].name), outcome.value, Undefined,
                            Some(CACHE_TTL_TAGS), now)
                   ELSE m,
         call |-> AwaitAll(IF outcome.ok THEN settled
                           ELSE [settled EXCEPT !.tasks = cancelled],
                           aborted)]

OnTagsResponsePushing(m, rec, i, resp, aborted) ==
    LET outcome == FetchCompute(resp)
        settled == TaskSettle(rec.tasks[i], resp)
        pushed == Append(rec.result, [name |-> settled.name, tags |-> settled.tags])
        after == AwaitAll([rec EXCEPT !.tasks[i] = settled], aborted)
        fromCache == SelectSeq(after.result,
                               LAMBDA img : \E j \in DOMAIN rec.tasks :
                                   /\ rec.tasks[j].name = img.name
                                   /\ rec.tasks[j].resp.kind = "cached")
    IN  [cache |-> IF outcome.ok
                   THEN Set(m, TagsUrl(rec.tasks[i].name), outcome.value, Undefined,
                            Some(CACHE_TTL_TAGS), now)
                   ELSE m,
         call |-> IF after.pc = "returned"
                  THEN [after EXCEPT !.result = fromCache \o pushed]
                  ELSE [after EXCEPT !.result = pushed]]

OnTagsResponse(m, rec, i, resp, aborted) ==
    LET outcome == FetchCompute(resp) IN
    [cache |-> IF outcome.ok
               THEN Set(m, TagsUrl(rec.tasks[i].name), outcome.value, Undefined,
                        Some(CACHE_TTL_TAGS), now)
               ELSE m,
     call |-> AwaitAll([rec EXCEPT !.tasks[i] = TaskSettle(rec.tasks[i], resp)],
                       aborted)]

RECURSIVE AbortTasks(_, _)
AbortTasks(tasks, i) ==
    IF i > Len(tasks) THEN tasks
    ELSE AbortTasks(IF tasks[i].st = "inflight"
                    THEN [tasks EXCEPT ![i] = TaskSettle(tasks[i], AbortResponse)]
                    ELSE tasks,
                    i + 1)

OnAbortIgnored(m, rec) == [cache |-> m, call |-> rec]

\* controller.abort(): every request in flight under the signal rejects
OnAbort(m, rec) ==
    CASE rec.pc = "catalog" -> OnCatalogResponse(m, rec, AbortResponse, TRUE)
      [] rec.pc = "tags" ->
            [cache |-> m,
             call |-> AwaitAll([rec EXCEPT !.tasks = AbortTasks(rec.tasks, 1)], TRUE)]
      [] OTHER -> [cache |-> m, call |-> rec]

InitFetch ==
    /\ call = [c \in FCallers |-> IdleF]
    /\ signal = [c \in FCallers |-> FALSE]
    /\ lastFetch = Undefined

\* how a settled call ended, for the call that follows it: whether it was
\* cancelled after it had received and stored the catalog
EndOf(rec) ==
    IF rec.pc = "aborted" /\ rec.catalogResp.kind = "ok"
    THEN "cancelled after the catalog"
    ELSE "other"

FetchStart(c, op) ==
    /\ ~InFlight(call[c])
    /\ LET r == StartCall(cache, op, signal[c], lastFetch)
       IN  /\ cache' = r.cache
           /\ call' = [call EXCEPT ![c] = [r.call EXCEPT !.after = EndOf(call[c])]]
    /\ UNCHANGED <<now, ret, wc, keyVars, sizeVars, appVars, signal, lastFetch>>

CatalogResponse(c, resp) ==
    /\ call[c].pc = "catalog"
    /\ LET r == OnCatalogResponse(cache, call[c], resp, signal[c])
       IN  cache' = r.cache /\ call' = [call EXCEPT ![c] = r.call]
    /\ lastFetch' = IF FetchCompute(resp).ok
                    THEN Some([at |-> now, value |-> FetchCompute(resp).value])
                    ELSE lastFetch
    /\ UNCHANGED <<now, ret, wc, keyVars, sizeVars, appVars, signal>>

TagsResponse(c, i, resp) ==
    /\ call[c].pc = "tags"
    /\ i \in DOMAIN call[c].tasks
    /\ call[c].tasks[i].st = "inflight"
    /\ LET r == OnTagsResponse(cache, call[c], i, resp, signal[c])
       IN  cache' = r.cache /\ call' = [call EXCEPT ![c] = r.call]
    /\ UNCHANGED <<now, ret, wc, keyVars, sizeVars, appVars, signal, lastFetch>>

Abort(c) ==
    /\ ~signal[c]
    /\ signal' = [signal EXCEPT ![c] = TRUE]
    /\ LET r == OnAbort(cache, call[c])
       IN  cache' = r.cache /\ call' = [call EXCEPT ![c] = r.call]
    /\ UNCHANGED <<now, ret, wc, keyVars, sizeVars, appVars, lastFetch>>

\* the caller makes a new AbortController for its next call
NewController(c) ==
    /\ signal[c]
    /\ ~InFlight(call[c])
    /\ signal' = [signal EXCEPT ![c] = FALSE]
    /\ UNCHANGED <<cacheVars, keyVars, sizeVars, appVars, call, lastFetch>>

\* registryService.clearCache()
ClearCache ==
    /\ cache' = Clear(cache)
    /\ lastFetch' = Undefined
    /\ UNCHANGED <<now, ret, wc, keyVars, sizeVars, appVars, call, signal>>

TickClock ==
    /\ now < MaxClock
    /\ now' = now + 1
    /\ UNCHANGED <<cache, ret, wc, keyVars, fetchVars, appVars, sizeVars>>

\* the lifetime of a cumulative-size entry passes at once
TickLong ==
    /\ now + CACHE_TTL_CUMULATIVE <= MaxLateClock
    /\ now' = now + CACHE_TTL_CUMULATIVE
    /\ UNCHANGED <<cache, ret, wc, keyVars, fetchVars, appVars, sizeVars>>

----------------------------------------------------------------------------
(* The registry service: fetchImageManifest, calculateImageSize and        *)
(* calculateCumulativeImageSize                                            *)

Layer(digest, bytes) == [digest |-> digest, size |-> bytes]

\* an ImageManifest: config?.size (0 when absent), config?.digest ("" when
\* absent), layers? and size? (0 when absent)
Manifest(configSize, configDigest, layers, bytes) ==
    [type |-> "manifest", configSize |-> configSize, configDigest |-> configDigest,
     layers |-> layers, size |-> bytes]

Manifests ==
    { Manifest(0, "", Some(<<Layer("s", 500), Layer("x", 100)>>), 0),
      Manifest(0, "", Some(<<Layer("s", 500), Layer("y", 100)>>), 0),
      Manifest(10, "c", Some(<<Layer("s", 100)>>), 0),
      Manifest(0, "", Some(<<Layer("z", 0)>>), 0),
      Manifest(0, "", Undefined, 42) }

ManifestResponses ==
    {[kind |-> "ok", body |-> Some(mf)] : mf \in Manifests}
    \cup {[kind |-> "status", status |-> st] : st \in Statuses}
    \cup {[kind |-> "network"]}

\* the function fetchImageManifest hands to withCache
ManifestCompute(resp) ==
    CASE resp.kind = "ok" ->
            [ok |-> TRUE, error |-> NoError, value |-> resp.body[1]]
      [] resp.kind = "status" ->
            [ok |-> FALSE, error |-> RegistryApiError(resp.status), value |-> Null]
      [] resp.kind = "abort" ->
            [ok |-> FALSE, error |-> AbortError, value |-> Null]
      [] resp.kind = "network" ->
            [ok |-> FALSE, error |-> PlainError, value |-> Null]

\* layers.reduce((sum, layer) => sum + (layer.size || 0), 0)
\* the JSON of a manifest: config, config.size, layers, a layer's size and size
\* may each be missing
JsonLayer(digest, bytes) == [digest |-> digest, size |-> bytes]

JsonManifest(config, layers, bytes) ==
    [config |-> config, layers |-> layers, size |-> bytes]

JsonManifests ==
    {JsonManifest(c, l, b) :
        c \in {Undefined, Some([digest |-> "c", size |-> Undefined]),
               Some([digest |-> "c", size |-> Some(0)]),
               Some([digest |-> "c", size |-> Some(100)])},
        l \in {Undefined, Some(<<>>),
               Some(<<JsonLayer("s", Some(200)), JsonLayer("x", Some(300))>>),
               Some(<<JsonLayer("s", Undefined)>>),
               Some(<<JsonLayer("s", Some(0)), JsonLayer("x", Some(200))>>)},
        b \in {Undefined, Some(0), Some(42)}}

\* what the truthiness tests and the || 0 of the service read from a numeric
\* field: undefined and 0 are falsy
OrZero(x) == IF x = Undefined THEN 0 ELSE x[1]

\* the manifest as calculateImageSize and the layer loop read it
ReadManifest(json) ==
    Manifest(IF json.config = Undefined THEN 0 ELSE OrZero(json.config[1].size),
             IF json.config = Undefined THEN "" ELSE json.config[1].digest,
             IF json.layers = Undefined THEN Undefined
             ELSE Some([i \in DOMAIN json.layers[1] |->
                           Layer(json.layers[1][i].digest,
                                 OrZero(json.layers[1][i].size))]),
             OrZero(json.size))

RECURSIVE SumLayersButFirst(_)
SumLayersButFirst(layers) ==
    IF Len(layers) <= 1 THEN 0
    ELSE layers[2].size + SumLayersButFirst(Tail(layers))

RECURSIVE SumLayers(_)
SumLayers(layers) ==
    IF layers = <<>> THEN 0 ELSE Head(layers).size + SumLayers(Tail(layers))

CalculateImageSizeConfigOnly(mf) ==
    IF mf.layers = Undefined /\ mf.size # 0 THEN mf.size ELSE mf.configSize

CalculateImageSize(mf) ==
    IF mf.layers # Undefined
    THEN mf.configSize + SumLayers(mf.layers[1])
    ELSE IF mf.size # 0 THEN mf.size
    ELSE mf.configSize

\* manifest.layers.forEach: allLayers[layer.digest] = layer.size for the layers
\* that have a digest and a size
RECURSIVE ForEachLayerAdding(_, _)
ForEachLayerAdding(all, layers) ==
    IF layers = <<>> THEN all
    ELSE ForEachLayerAdding(
             IF Head(layers).digest # "" /\ Head(layers).size # 0
             THEN MapSet(all, Head(layers).digest,
                         Head(layers).size + IF Head(layers).digest \in DOMAIN all
                                             THEN all[Head(layers).digest] ELSE 0)
             ELSE all,
             Tail(layers))

RECURSIVE ForEachLayerKeepingFirst(_, _)
ForEachLayerKeepingFirst(all, layers) ==
    IF layers = <<>> THEN all
    ELSE ForEachLayerKeepingFirst(
             IF Head(layers).digest # "" /\ Head(layers).size # 0
                /\ Head(layers).digest \notin DOMAIN all
             THEN MapSet(all, Head(layers).digest, Head(layers).size)
             ELSE all,
             Tail(layers))

RECURSIVE ForEachLayer(_, _)
ForEachLayer(all, layers) ==
    IF layers = <<>> THEN all
    ELSE ForEachLayer(IF Head(layers).digest # "" /\ Head(layers).size # 0
                      THEN MapSet(all, Head(layers).digest, Head(layers).size)
                      ELSE all,
                      Tail(layers))

RECURSIVE SumValues(_)
SumValues(m) ==
    IF DOMAIN m = {} THEN 0
    ELSE LET k == CHOOSE j \in DOMAIN m : TRUE
         IN  m[k] + SumValues(MapDelete(m, k))

SizeImages == {"a"}
SizeTagLists == {<<>>, <<"1">>, <<"1", "2">>, <<"1", "2", "3">>}

\* the arguments of a calculateCumulativeImageSize call
Arguments(imageName, tags, flag) ==
    [imageName |-> imageName, tags |-> tags, flag |-> flag]

\* stored and reused are history: the arguments of the call that stored each
\* cumulative entry, and those behind the entry a call was answered from
IdleSize ==
    [pc |-> "idle", calls |-> 0, aborted |-> FALSE, imageName |-> "a",
     tags |-> <<>>, flag |-> FALSE, computed |-> FALSE, tasks |-> <<>>,
     tagSizes |-> EmptyMap, allLayers |-> EmptyMap, totalSize |-> 0,
     result |-> Null, error |-> NoError, tokenAborted |-> FALSE,
     stored |-> EmptyMap, reused |-> Undefined]

InitSize == size = IdleSize

SizeInFlight(rec) == rec.pc = "manifests"

\* the map callback after fetchImageManifest has resolved with mf
AccumulateNoOverwrite(rec, i, mf) ==
    [rec EXCEPT !.tasks[i].st = "done",
                !.tasks[i].manifest = mf,
                !.tagSizes = MapSet(rec.tagSizes, rec.tasks[i].tag, CalculateImageSize(mf)),
                !.totalSize = CalculateImageSize(mf),
                !.allLayers = IF rec.flag /\ mf.layers # Undefined
                              THEN ForEachLayer(rec.allLayers, mf.layers[1])
                              ELSE rec.allLayers]

Accumulate(rec, i, mf) ==
    [rec EXCEPT !.tasks[i].st = "done",
                !.tasks[i].manifest = mf,
                !.tagSizes = MapSet(rec.tagSizes, rec.tasks[i].tag, CalculateImageSize(mf)),
                !.totalSize = rec.totalSize + CalculateImageSize(mf),
                !.allLayers = IF rec.flag /\ mf.layers # Undefined
                              THEN ForEachLayer(rec.allLayers, mf.layers[1])
                              ELSE rec.allLayers]

\* Object.values(allLayers).reduce(...) or totalSize
UniqueSize(rec) ==
    IF rec.flag THEN SumValues(rec.allLayers) ELSE rec.totalSize

\* the object calculateCumulativeImageSize resolves with
SizeResult(rec) ==
    [type |-> "cumulative", totalSize |-> rec.totalSize,
     uniqueSize |-> UniqueSize(rec), tagSizes |-> rec.tagSizes,
     layerDigests |-> DOMAIN rec.allLayers]

\* the map callback once fetchImageManifest has settled
SizeTaskKeepFailed(rec, i, resp) ==
    LET outcome == ManifestCompute(resp)
        got == [rec EXCEPT !.tasks[i].resp = resp, !.tasks[i].error = outcome.error]
    IN  IF outcome.ok THEN Accumulate(got, i, outcome.value)
        ELSE IF outcome.error.name = "AbortError"
        THEN [got EXCEPT !.tasks[i].st = "aborted"]
        ELSE [got EXCEPT !.tasks[i].st = "failed",
                         !.tagSizes = MapSet(got.tagSizes, got.tasks[i].tag, 0)]

SizeTaskSettle(rec, i, resp) ==
    LET outcome == ManifestCompute(resp)
        got == [rec EXCEPT !.tasks[i].resp = resp, !.tasks[i].error = outcome.error]
    IN  IF outcome.ok THEN Accumulate(got, i, outcome.value)
        ELSE IF outcome.error.name = "AbortError"
        THEN [got EXCEPT !.tasks[i].st = "aborted"]
        ELSE [got EXCEPT !.tasks[i].st = "failed"]

\* one callback of tags.map up to its await; a cached manifest resolves at once
RECURSIVE SizeFanOut(_, _, _)
SizeFanOut(m, rec, i) ==
    IF i > Len(rec.tags) THEN [cache |-> m, call |-> rec]
    ELSE LET url == ManifestUrl(rec.imageName, rec.tags[i])
             cached == GetValue(m, url, Undefined, now)
             task == [st |-> "inflight", tag |-> rec.tags[i], resp |-> NoResponse,
                      error |-> NoError, manifest |-> Null]
             with == [rec EXCEPT !.tasks = Append(rec.tasks, task)]
         IN  IF rec.aborted
             THEN SizeFanOut(m, [with EXCEPT !.tasks[i].st = "aborted",
                                             !.tasks[i].error = AbortError], i + 1)
             ELSE IF cached # Null
             THEN SizeFanOut(GetCache(m, url, Undefined, now),
                             Accumulate([with EXCEPT !.tasks[i].resp = CachedResponse(cached)],
                                        i, cached),
                             i + 1)
             ELSE SizeFanOut(GetCache(m, url, Undefined, now), with, i + 1)

\* await Promise.all(manifestPromises), the result, and withCache storing it
SizeAwaitAllCompleteOnly(m, rec) ==
    IF \E i \in DOMAIN rec.tasks : rec.tasks[i].st = "aborted"
    THEN [cache |-> m,
          call |-> [rec EXCEPT !.pc = "aborted", !.error = AbortError,
                               !.tokenAborted = rec.aborted]]
    ELSE IF \E i \in DOMAIN rec.tasks : rec.tasks[i].st = "inflight"
    THEN [cache |-> m, call |-> [rec EXCEPT !.pc = "manifests"]]
    ELSE IF \E i \in DOMAIN rec.tasks : rec.tasks[i].st = "failed"
    THEN [cache |-> m,
          call |-> [rec EXCEPT !.pc = "returned", !.result = SizeResult(rec),
                               !.tokenAborted = rec.aborted]]
    ELSE [cache |-> Set(m, CumulativeUrl(rec.imageName), SizeResult(rec),
                        CumulativeParams(rec.tags, rec.flag),
                        Some(CACHE_TTL_CUMULATIVE), now),
          call |-> [rec EXCEPT !.pc = "returned", !.result = SizeResult(rec),
                               !.tokenAborted = rec.aborted,
                               !.stored =
                                   MapSet(rec.stored,
                                          GenerateKey(CumulativeUrl(rec.imageName),
                                                      CumulativeParams(rec.tags, rec.flag)),
                                          Arguments(rec.imageName, rec.tags, rec.flag))]]

SizeAwaitAll(m, rec) ==
    IF \E i \in DOMAIN rec.tasks : rec.tasks[i].st = "aborted"
    THEN [cache |-> m,
          call |-> [rec EXCEPT !.pc = "aborted", !.error = AbortError,
                               !.tokenAborted = rec.aborted]]
    ELSE IF \E i \in DOMAIN rec.tasks : rec.tasks[i].st = "inflight"
    THEN [cache |-> m, call |-> [rec EXCEPT !.pc = "manifests"]]
    ELSE [cache |-> Set(m, CumulativeUrl(rec.imageName), SizeResult(rec),
                        CumulativeParams(rec.tags, rec.flag),
                        Some(CACHE_TTL_CUMULATIVE), now),
          call |-> [rec EXCEPT !.pc = "returned", !.result = SizeResult(rec),
                               !.tokenAborted = rec.aborted,
                               !.stored =
                                   MapSet(rec.stored,
                                          GenerateKey(CumulativeUrl(rec.imageName),
                                                      CumulativeParams(rec.tags, rec.flag)),
                                          Arguments(rec.imageName, rec.tags, rec.flag))]]

\* calculateCumulativeImageSize up to the first await that suspends
SizeStartCall(m, old, imageName, tags, flag) ==
    LET params == CumulativeParams(tags, flag)
        cached == GetValue(m, CumulativeUrl(imageName), params, now)
        m1 == GetCache(m, CumulativeUrl(imageName), params, now)
        rec == [IdleSize EXCEPT !.calls = old.calls + 1, !.aborted = old.aborted,
                                !.imageName = imageName, !.tags = tags, !.flag = flag,
                                !.stored = old.stored]
        fanned == SizeFanOut(m1, [rec EXCEPT !.computed = TRUE], 1)
    IN  IF cached # Null
        THEN [cache |-> m1,
              call |-> [rec EXCEPT !.pc = "returned", !.result = cached,
                                   !.tokenAborted = old.aborted,
                                   !.reused =
                                       Some(old.stored[GenerateKey(CumulativeUrl(imageName),
                                                                   params)])]]
        ELSE SizeAwaitAll(fanned.cache, fanned.call)

\* the manifest request of the i-th tag settles
OnManifestResponse(m, rec, i, resp) ==
    LET outcome == ManifestCompute(resp) IN
    SizeAwaitAll(IF outcome.ok
                 THEN Set(m, ManifestUrl(rec.imageName, rec.tags[i]), outcome.value,
                          Undefined, Some(CACHE_TTL_MANIFEST), now)
                 ELSE m,
                 SizeTaskSettle(rec, i, resp))

RECURSIVE SizeAbortTasks(_, _)
SizeAbortTasks(rec, i) ==
    IF i > Len(rec.tasks) THEN rec
    ELSE SizeAbortTasks(IF rec.tasks[i].st = "inflight"
                        THEN SizeTaskSettle(rec, i, AbortResponse)
                        ELSE rec,
                        i + 1)

SizeStart(imageName, tags, flag) ==
    /\ ~SizeInFlight(size)
    /\ size.calls < MaxSizeCalls
    /\ LET r == SizeStartCall(cache, size, imageName, tags, flag)
       IN  cache' = r.cache /\ size' = r.call
    /\ UNCHANGED <<now, ret, wc, keyVars, fetchVars, appVars, del, calc>>

ManifestResponse(i, resp) ==
    /\ SizeInFlight(size)
    /\ i \in DOMAIN size.tasks
    /\ size.tasks[i].st = "inflight"
    /\ LET r == OnManifestResponse(cache, size, i, resp)
       IN  cache' = r.cache /\ size' = r.call
    /\ UNCHANGED <<now, ret, wc, keyVars, fetchVars, appVars, del, calc>>

\* controller.abort() on the token of the call
SizeAbort ==
    /\ ~size.aborted
    /\ LET r == SizeAwaitAll(cache, SizeAbortTasks([size EXCEPT !.aborted = TRUE], 1))
       IN  IF SizeInFlight(size)
           THEN cache' = r.cache /\ size' = r.call
           ELSE cache' = cache /\ size' = [size EXCEPT !.aborted = TRUE]
    /\ UNCHANGED <<now, ret, wc, keyVars, fetchVars, appVars, del, calc>>

\* the caller makes a new AbortController for its next call
SizeNewController ==
    /\ size.aborted
    /\ ~SizeInFlight(size)
    /\ size' = [size EXCEPT !.aborted = FALSE]
    /\ UNCHANGED <<cacheVars, keyVars, fetchVars, appVars, del, calc>>

\* calculateImageSize applied to a manifest
InitCalc == calc = [phase |-> "none"]

Calculate ==
    /\ calc.phase = "input"
    /\ calc' = [phase |-> "done", manifest |-> calc.manifest,
                result |-> CalculateImageSize(ReadManifest(calc.manifest))]
    /\ UNCHANGED <<cacheVars, keyVars, fetchVars, appVars, size, del>>

----------------------------------------------------------------------------
(* The registry service: deleteImageTag, called by ImageDetails.handleDeleteTag *)

\* the manifests the registry serves for the tag to delete: one with a config
\* digest and one without
DeleteManifests ==
    { Manifest(10, "c", Some(<<Layer("s", 100)>>), 0),
      Manifest(0, "", Some(<<Layer("s", 500), Layer("x", 100)>>), 0) }

\* deleteImageTag passes no abort signal to fetchImageManifest
DeleteManifestResponses ==
    {[kind |-> "ok", body |-> Some(mf)] : mf \in DeleteManifests}
    \cup {[kind |-> "status", status |-> st] : st \in Statuses}
    \cup {[kind |-> "network"]}

\* what the registry answers to the DELETE request
DeleteResponses ==
    {[kind |-> "ok"]}
    \cup {[kind |-> "status", status |-> st] : st \in {404, 405}}
    \cup {[kind |-> "network"]}

NotAllowedMessage == "Registry does not allow deletion"

\* the RegistryApiError deleteImageTag throws for a non-2xx answer
DeleteApiError(status) ==
    [name |-> "RegistryApiError", status |-> status,
     message |-> IF status = 405 THEN NotAllowedMessage ELSE "Failed to delete"]

\* throw new Error(`Could not find digest for ${imageName}:${tag}`)
DigestError == [name |-> "Error", message |-> "Could not find digest"]

\* fetch rejecting in transport; deleteImageTag rethrows it as it is
NetworkError == [name |-> "TypeError", message |-> "Failed to fetch"]

NotAllowedText == "The registry server doesn't allow deletion"

\* the catch block of handleDeleteTag: its own text for a 405, else
\* err.message
DeleteErrorText(err) ==
    IF err.name = "RegistryApiError" /\ err.status = 405
    THEN Str(NotAllowedText)
    ELSE Str(IF "message" \in DOMAIN err THEN err.message
             ELSE IF err.name = "RegistryApiError" THEN "Failed to fetch manifest"
             ELSE "Failed to fetch")

\* forceRemove is what the caller wishes: deleteImageTag(imageName, tag) has no
\* such parameter.  before is history: the cache when the call was made.
IdleDel ==
    [pc |-> "idle", calls |-> 0, imageName |-> "a", tag |-> "",
     forceRemove |-> FALSE, manifestResp |-> NoResponse, manifest |-> Null,
     deleteUrl |-> "", deleteResp |-> NoResponse, error |-> NoError,
     before |-> EmptyMap, isDeleting |-> FALSE, deleteError |-> Null]

InitDelete == del = IdleDel

DeleteInFlight(rec) == rec.pc \in {"manifest", "deleting"}

\* the catch blocks of deleteImageTag and of handleDeleteTag, and its finally
DeleteFailInvalidating(m, rec, err) ==
    [cache |-> Remove(m, TagsUrl(rec.imageName), Undefined),
     call |-> [rec EXCEPT !.pc = "failed", !.error = err, !.isDeleting = FALSE,
                          !.deleteError = DeleteErrorText(err)]]

DeleteFail(m, rec, err) ==
    [cache |-> m,
     call |-> [rec EXCEPT !.pc = "failed", !.error = err, !.isDeleting = FALSE,
                          !.deleteError = DeleteErrorText(err)]]

AfterManifestByTag(m, rec) ==
    IF rec.manifest = Null
    THEN DeleteFail(m, rec, DigestError)
    ELSE [cache |-> m,
          call |-> [rec EXCEPT !.pc = "deleting",
                               !.deleteUrl =
                                   ManifestUrl(rec.imageName,
                                               IF rec.manifest.configDigest = ""
                                               THEN rec.tag
                                               ELSE rec.manifest.configDigest)]]

\* the digest check and the DELETE request by manifest.config.digest
AfterManifest(m, rec) ==
    IF rec.manifest = Null \/ rec.manifest.configDigest = ""
    THEN DeleteFail(m, rec, DigestError)
    ELSE [cache |-> m,
          call |-> [rec EXCEPT !.pc = "deleting",
                               !.deleteUrl = ManifestUrl(rec.imageName,
                                                         rec.manifest.configDigest)]]

\* handleDeleteTag and deleteImageTag up to the first await that suspends
DeleteStartCall(m, old, imageName, tag, forceRemove) ==
    LET cached == GetValue(m, ManifestUrl(imageName, tag), Undefined, now)
        m1 == GetCache(m, ManifestUrl(imageName, tag), Undefined, now)
        rec == [IdleDel EXCEPT !.calls = old.calls + 1, !.imageName = imageName,
                               !.tag = tag, !.forceRemove = forceRemove,
                               !.before = m, !.isDeleting = TRUE]
    IN  IF cached # Null
        THEN AfterManifest(m1, [rec EXCEPT !.manifestResp = CachedResponse(cached),
                                           !.manifest = cached])
        ELSE [cache |-> m1, call |-> [rec EXCEPT !.pc = "manifest"]]

\* the manifest request settles
OnDeleteManifestResponseForced(m, rec, resp) ==
    LET outcome == ManifestCompute(resp)
        got == [rec EXCEPT !.manifestResp = resp]
    IN  IF outcome.ok
        THEN AfterManifest(Set(m, ManifestUrl(rec.imageName, rec.tag), outcome.value,
                               Undefined, Some(CACHE_TTL_MANIFEST), now),
                           [got EXCEPT !.manifest = outcome.value])
        ELSE [cache |-> m,
              call |-> [got EXCEPT !.pc = "deleting",
                                   !.deleteUrl = ManifestUrl(rec.imageName, rec.tag)]]

OnDeleteManifestResponse(m, rec, resp) ==
    LET outcome == ManifestCompute(resp)
        got == [rec EXCEPT !.manifestResp = resp]
    IN  IF outcome.ok
        THEN AfterManifest(Set(m, ManifestUrl(rec.imageName, rec.tag), outcome.value,
                               Undefined, Some(CACHE_TTL_MANIFEST), now),
                           [got EXCEPT !.manifest = outcome.value])
        ELSE DeleteFail(m, got, outcome.error)

\* the three apiCache.remove calls after a successful DELETE
Invalidate(m, imageName, tag) ==
    Remove(Remove(Remove(m, TagsUrl(imageName), Undefined),
                  ManifestUrl(imageName, tag), Undefined),
           CumulativeUrl(imageName), Undefined)

\* the DELETE request settles
OnDeleteResponseInvalidating(m, rec, resp) ==
    LET got == [rec EXCEPT !.deleteResp = resp] IN
    CASE resp.kind = "ok" ->
            [cache |-> Invalidate(m, rec.imageName, rec.tag),
             call |-> [got EXCEPT !.pc = "returned", !.isDeleting = FALSE]]
      [] resp.kind = "status" ->
            DeleteFail(Invalidate(m, rec.imageName, rec.tag), got,
                       DeleteApiError(resp.status))
      [] resp.kind = "network" ->
            DeleteFail(Invalidate(m, rec.imageName, rec.tag), got, NetworkError)

OnDeleteResponse(m, rec, resp) ==
    LET got == [rec EXCEPT !.deleteResp = resp] IN
    CASE resp.kind = "ok" ->
            [cache |-> Invalidate(m, rec.imageName, rec.tag),
             call |-> [got EXCEPT !.pc = "returned", !.isDeleting = FALSE]]
      [] resp.kind = "status" -> DeleteFail(m, got, DeleteApiError(resp.status))
      [] resp.kind = "network" -> DeleteFail(m, got, NetworkError)

\* handleDeleteTag: if (!tagToDelete) return; the dialog's buttons are disabled
\* while isDeleting
DeleteStart(imageName, tag, forceRemove) ==
    /\ ~DeleteInFlight(del)
    /\ del.calls < MaxDeletes
    /\ LET r == DeleteStartCall(cache, del, imageName, tag, forceRemove)
       IN  cache' = r.cache /\ del' = r.call
    /\ UNCHANGED <<now, ret, wc, keyVars, fetchVars, appVars, size, calc>>

DeleteManifestResponse(resp) ==
    /\ del.pc = "manifest"
    /\ LET r == OnDeleteManifestResponse(cache, del, resp)
       IN  cache' = r.cache /\ del' = r.call
    /\ UNCHANGED <<now, ret, wc, keyVars, fetchVars, appVars, size, calc>>

DeleteResponse(resp) ==
    /\ del.pc = "deleting"
    /\ LET r == OnDeleteResponse(cache, del, resp)
       IN  cache' = r.cache /\ del' = r.call
    /\ UNCHANGED <<now, ret, wc, keyVars, fetchVars, appVars, size, calc>>

\* the cache the earlier calls of a session leave: fetchAllImages, and
\* calculateCumulativeImageSize of the tag 1 of repository a
AfterFetchAll(m) ==
    LET started == StartCall(m, "all", FALSE, Undefined)
        listed == OnCatalogResponse(started.cache, started.call,
                                    [kind |-> "ok", body |-> Some(<<"a">>)], FALSE)
        tagged == OnTagsResponse(listed.cache, listed.call, 1,
                                 [kind |-> "ok", body |-> Some(<<"1", "2">>)], FALSE)
    IN  tagged.cache

AfterSize(m, flag) ==
    LET started == SizeStartCall(m, IdleSize, "a", <<"1">>, flag)
        sized == OnManifestResponse(started.cache, started.call, 1,
                                    [kind |-> "ok",
                                     body |-> Some(Manifest(10, "c", Some(<<Layer("s", 100)>>), 0))])
    IN  sized.cache

StoredCaches ==
    {EmptyMap, AfterFetchAll(EmptyMap), AfterSize(EmptyMap, TRUE),
     AfterSize(AfterFetchAll(EmptyMap), TRUE),
     AfterSize(AfterFetchAll(EmptyMap), FALSE)}

----------------------------------------------------------------------------
(* The application: useAuth, useDockerRegistry and App.handleRefresh *)

Hook == "f1"

RegistryUrls == {"", "http://registry"}

\* new URL(s) throws for a string that is not an absolute url
ValidUrl(s) == s # ""

\* unaborted is history: how many of the AbortControllers the hook has made
\* are not aborted
AppStates ==
    [mounted : {FALSE}, authenticated : BOOLEAN, registryUrl : RegistryUrls,
     authError : {FALSE}, controller : {FALSE}, images : {<<>>},
     isLoadingImages : {FALSE}, imagesError : {NoError}, unaborted : {0}]

\* the application before its first render, with nothing in localStorage
InitApp ==
    app = [mounted |-> FALSE, authenticated |-> FALSE, registryUrl |-> "",
           authError |-> FALSE, controller |-> FALSE, images |-> <<>>,
           isLoadingImages |-> FALSE, imagesError |-> NoError, unaborted |-> 0]

\* the application before its first render, with whatever localStorage holds
InitAppStored == app \in AppStates

\* fetchImages after its await of fetchAllImages has settled
ContinueShowingAbort(a, rec) ==
    CASE rec.pc = "returned" ->
            [a EXCEPT !.images = rec.result, !.isLoadingImages = FALSE]
      [] rec.pc \in {"aborted", "failed"} ->
            [a EXCEPT !.imagesError = rec.error, !.isLoadingImages = FALSE]
      [] OTHER -> a

ContinueLeavingLoading(a, rec) ==
    CASE rec.pc = "returned" ->
            [a EXCEPT !.images = rec.result, !.isLoadingImages = FALSE]
      [] rec.pc = "failed" ->
            [a EXCEPT !.imagesError = rec.error, !.isLoadingImages = FALSE]
      [] OTHER -> a

Continue(a, rec) ==
    CASE rec.pc = "returned" ->
            [a EXCEPT !.images = rec.result, !.isLoadingImages = FALSE]
      [] rec.pc = "aborted" ->
            [a EXCEPT !.isLoadingImages = FALSE]
      [] rec.pc = "failed" ->
            [a EXCEPT !.imagesError = rec.error, !.isLoadingImages = FALSE]
      [] OTHER -> a

\* fetchImages up to its await; the call it supersedes is aborted first and
\* runs its own finally after the synchronous part of this one
FetchImagesKeepingToken(a, m, rec, aborted, prior) ==
    IF ~a.authenticated \/ a.registryUrl = ""
    THEN [app |-> a, cache |-> m, call |-> rec, signal |-> aborted]
    ELSE LET started == StartCall(m, "all", FALSE, prior)
             a1 == [a EXCEPT !.controller = TRUE, !.isLoadingImages = TRUE,
                             !.imagesError = NoError,
                             !.unaborted = a.unaborted + 1]
         IN  [app |-> Continue(a1, started.call), cache |-> started.cache,
              call |-> started.call, signal |-> FALSE]

FetchImages(a, m, rec, aborted, prior) ==
    IF ~a.authenticated \/ a.registryUrl = ""
    THEN [app |-> a, cache |-> m, call |-> rec, signal |-> aborted]
    ELSE LET old == IF a.controller THEN OnAbort(m, rec)
                                    ELSE [cache |-> m, call |-> rec]
             started == StartCall(old.cache, "all", FALSE, prior)
             a1 == [a EXCEPT !.controller = TRUE, !.isLoadingImages = TRUE,
                             !.imagesError = NoError,
                             !.unaborted = (IF a.controller /\ ~aborted
                                            THEN a.unaborted - 1 ELSE a.unaborted) + 1]
             a2 == IF a.controller /\ InFlight(rec) THEN Continue(a1, old.call) ELSE a1
         IN  [app |-> Continue(a2, started.call), cache |-> started.cache,
              call |-> started.call, signal |-> FALSE]

\* the cleanup of the effect of useDockerRegistry
Cleanup(a, m, rec, aborted) ==
    IF a.controller
    THEN LET cleaned == [a EXCEPT !.controller = FALSE,
                                  !.unaborted = IF aborted THEN a.unaborted
                                                ELSE a.unaborted - 1] IN
         [app |-> IF InFlight(rec) THEN Continue(cleaned, OnAbort(m, rec).call)
                                   ELSE cleaned,
          cache |-> m, call |-> OnAbort(m, rec).call, signal |-> TRUE]
    ELSE [app |-> a, cache |-> m, call |-> rec, signal |-> aborted]

\* the effect of useDockerRegistry
Effect(a, m, rec, aborted, prior) ==
    IF a.authenticated THEN FetchImages(a, m, rec, aborted, prior)
    ELSE [app |-> a, cache |-> m, call |-> rec, signal |-> aborted]

\* a render in which authenticated or fetchImages changed: cleanup, then effect
Rerun(a, m, rec, aborted, prior) ==
    LET c == Cleanup(a, m, rec, aborted)
    IN  Effect(c.app, c.cache, c.call, c.signal, prior)

Becomes(r) ==
    /\ app' = r.app
    /\ cache' = r.cache
    /\ call' = [call EXCEPT ![Hook] = r.call]
    /\ signal' = [signal EXCEPT ![Hook] = r.signal]

\* the first render
Mount ==
    /\ ~app.mounted
    /\ Becomes(Effect([app EXCEPT !.mounted = TRUE], cache, call[Hook],
                      signal[Hook], lastFetch))
    /\ ret' = [op |-> "mount"]
    /\ UNCHANGED <<now, wc, keyVars, sizeVars, lastFetch>>

\* useAuth.handleInputChange on the registry url of the login form
HandleInputChange(url) ==
    /\ app.mounted
    /\ ~app.authenticated
    /\ url # app.registryUrl
    /\ Becomes(Rerun([app EXCEPT !.registryUrl = url], cache, call[Hook],
                     signal[Hook], lastFetch))
    /\ ret' = [op |-> "handleInputChange"]
    /\ UNCHANGED <<now, wc, keyVars, sizeVars, lastFetch>>

\* useAuth.handleLogin
HandleLogin ==
    /\ app.mounted
    /\ ~app.authenticated
    /\ IF ValidUrl(app.registryUrl)
       THEN Becomes(Rerun([app EXCEPT !.authenticated = TRUE, !.authError = FALSE],
                          cache, call[Hook], signal[Hook], lastFetch))
       ELSE /\ app' = [app EXCEPT !.authError = TRUE]
            /\ UNCHANGED <<cache, call, signal>>
    /\ ret' = [op |-> "handleLogin"]
    /\ UNCHANGED <<now, wc, keyVars, sizeVars, lastFetch>>

\* useAuth.handleLogout
HandleLogout ==
    /\ app.mounted
    /\ app.authenticated
    /\ Becomes(Rerun([app EXCEPT !.authenticated = FALSE], cache, call[Hook],
                     signal[Hook], lastFetch))
    /\ ret' = [op |-> "handleLogout"]
    /\ UNCHANGED <<now, wc, keyVars, sizeVars, lastFetch>>

\* App.handleRefresh, behind the refresh button of Header
HandleRefresh ==
    /\ app.mounted
    /\ app.authenticated
    /\ ~app.isLoadingImages
    /\ Becomes(FetchImages(app, Clear(cache), call[Hook], signal[Hook], Undefined))
    /\ lastFetch' = Undefined
    /\ ret' = [op |-> "handleRefresh"]
    /\ UNCHANGED <<now, wc, keyVars, sizeVars>>

\* refreshImages, the fetchImages the hook returns to its consumers, called
\* by one of them: nothing in the hook holds a call back while another is in
\* flight
RefreshImages ==
    /\ app.mounted
    /\ app.authenticated
    /\ Becomes(FetchImages(app, cache, call[Hook], signal[Hook], lastFetch))
    /\ ret' = [op |-> "refreshImages"]
    /\ UNCHANGED <<now, wc, keyVars, sizeVars, lastFetch>>

\* the catalog request of the hook's call settles
AppCatalogResponse(resp) ==
    /\ call[Hook].pc = "catalog"
    /\ LET r == OnCatalogResponse(cache, call[Hook], resp, signal[Hook])
       IN  Becomes([app |-> Continue(app, r.call), cache |-> r.cache,
                    call |-> r.call, signal |-> signal[Hook]])
    /\ lastFetch' = IF FetchCompute(resp).ok
                    THEN Some([at |-> now, value |-> FetchCompute(resp).value])
                    ELSE lastFetch
    /\ ret' = [op |-> "response"]
    /\ UNCHANGED <<now, wc, keyVars, sizeVars>>

\* a tags request of the hook's call settles
AppTagsResponse(i, resp) ==
    /\ call[Hook].pc = "tags"
    /\ i \in DOMAIN call[Hook].tasks
    /\ call[Hook].tasks[i].st = "inflight"
    /\ LET r == OnTagsResponse(cache, call[Hook], i, resp, signal[Hook])
       IN  Becomes([app |-> Continue(app, r.call), cache |-> r.cache,
                    call |-> r.call, signal |-> signal[Hook]])
    /\ ret' = [op |-> "response"]
    /\ UNCHANGED <<now, wc, keyVars, sizeVars, lastFetch>>

----------------------------------------------------------------------------
(* Actions of the cache *)

IdleCall == [pc |-> "idle"]

InitCache ==
    /\ cache = EmptyMap
    /\ now = 0
    /\ ret = [op |-> "init"]
    /\ wc = [c \in WCallers |-> IdleCall]

Init == InitCache /\ InitKeys /\ InitFetch /\ InitApp /\ InitSize /\ InitDelete /\ InitCalc

Tick ==
    /\ now < MaxTime
    /\ now' = now + 1
    /\ ret' = [op |-> "tick"]
    /\ UNCHANGED <<cache, wc, outsideCache>>

DoGet(r) ==
    /\ cache' = GetCache(cache, r[1], r[2], now)
    /\ ret' = [op |-> "get", req |-> r, before |-> ItemOf(cache, r),
               value |-> GetValue(cache, r[1], r[2], now)]
    /\ UNCHANGED <<now, wc, outsideCache>>

DoSet(r, v, ttl) ==
    /\ cache' = Set(cache, r[1], v, r[2], ttl, now)
    /\ ret' = [op |-> "set", req |-> r, before |-> ItemOf(cache, r),
               data |-> v, ttl |-> ttl]
    /\ UNCHANGED <<now, wc, outsideCache>>

DoRemove(r) ==
    /\ cache' = Remove(cache, r[1], r[2])
    /\ ret' = [op |-> "remove", req |-> r]
    /\ UNCHANGED <<now, wc, outsideCache>>

DoClear ==
    /\ cache' = Clear(cache)
    /\ ret' = [op |-> "clear", before |-> DOMAIN cache]
    /\ UNCHANGED <<now, wc, outsideCache>>

DoClearExpired ==
    /\ cache' = ClearExpired(cache, now)
    /\ ret' = [op |-> "clearExpired", count |-> Cardinality(ExpiredKeys(cache, now))]
    /\ UNCHANGED <<now, wc, outsideCache>>

\* withCache up to its await: the lookup, and on a miss the call of fn
WithCacheCall(c, ttl) ==
    LET r == WcRequest IN
    /\ wc[c].pc = "idle"
    /\ cache' = GetCache(cache, r[1], r[2], now)
    /\ LET cachedData == GetValue(cache, r[1], r[2], now)
           item == ItemOf(cache, r)
           live == item # Undefined /\ now <= item[1].expiresAt
           begun == [req |-> r, ttl |-> ttl, live |-> live,
                    liveData |-> IF live THEN item[1].data ELSE Null,
                    overlaps |-> {d \in WCallers : wc[d].pc = "computing"}]
       IN  wc' = [wc EXCEPT ![c] =
                IF cachedData # Null
                THEN begun @@ [pc |-> "returned", value |-> cachedData, invoked |-> 0]
                ELSE begun @@ [pc |-> "computing", value |-> Null, invoked |-> 1]]
    /\ ret' = [op |-> "withCache", caller |-> c]
    /\ UNCHANGED <<now, outsideCache>>

\* fn() resolves with v: the value is stored and returned
ComputeResolve(c, v) ==
    /\ wc[c].pc = "computing"
    /\ cache' = Set(cache, wc[c].req[1], v, wc[c].req[2], wc[c].ttl, now)
    /\ wc' = [wc EXCEPT ![c].pc = "returned", ![c].value = v]
    /\ ret' = [op |-> "resolve", caller |-> c, computed |-> v]
    /\ UNCHANGED <<now, outsideCache>>

\* fn() rejects: withCache rejects with the same error, nothing is stored
ComputeReject(c) ==
    /\ wc[c].pc = "computing"
    /\ wc' = [wc EXCEPT ![c].pc = "threw"]
    /\ ret' = [op |-> "reject", caller |-> c]
    /\ UNCHANGED <<cache, now, outsideCache>>

\* the caller has taken the outcome of its call
WithCacheEnd(c) ==
    /\ wc[c].pc \in {"returned", "threw"}
    /\ wc' = [wc EXCEPT ![c] = IdleCall]
    /\ ret' = [op |-> "end", caller |-> c]
    /\ UNCHANGED <<cache, now, outsideCache>>

\* The cache under its own operations
Next ==
    \/ Tick
    \/ \E r \in Requests : DoGet(r)
    \/ \E r \in Requests, v \in Values, ttl \in TtlArgs : DoSet(r, v, ttl)
    \/ \E r \in Requests : DoRemove(r)
    \/ DoClear
    \/ DoClearExpired

Spec == Init /\ [][Next]_vars

\* The cache under concurrent withCache calls
NextWithCache ==
    \/ Tick
    \/ \E c \in WCallers, ttl \in WcTtlArgs : WithCacheCall(c, ttl)
    \/ \E c \in WCallers, v \in Values : ComputeResolve(c, v)
    \/ \E c \in WCallers : ComputeReject(c)
    \/ \E c \in WCallers : WithCacheEnd(c)

SpecWithCache == Init /\ [][NextWithCache]_vars

\* The registry service under sequential calls, aborts and clears
NextFetch ==
    \/ TickClock
    \/ \E c \in FCallers, op \in {"catalog", "all"} : FetchStart(c, op)
    \/ \E c \in FCallers, resp \in CatalogResponses : CatalogResponse(c, resp)
    \/ \E c \in FCallers, i \in 1 .. 2, resp \in TagsResponses : TagsResponse(c, i, resp)
    \/ \E c \in FCallers : Abort(c)
    \/ \E c \in FCallers : NewController(c)
    \/ ClearCache

SpecFetch == Init /\ [][NextFetch]_vars

\* The application under the user's actions and the registry's answers
NextApp ==
    \/ TickClock
    \/ Mount
    \/ \E url \in RegistryUrls : HandleInputChange(url)
    \/ HandleLogin
    \/ HandleLogout
    \/ HandleRefresh
    \/ \E resp \in CatalogResponses : AppCatalogResponse(resp)
    \/ \E i \in 1 .. 2, resp \in TagsResponses : AppTagsResponse(i, resp)

InitStored == InitCache /\ InitKeys /\ InitFetch /\ InitAppStored /\ InitSize /\ InitDelete /\ InitCalc

SpecApp == InitStored /\ [][NextApp]_vars

\* The application when every request in flight is eventually answered
Answered ==
    \/ \E resp \in CatalogResponses : AppCatalogResponse(resp)
    \/ \E i \in 1 .. 2, resp \in TagsResponses : AppTagsResponse(i, resp)

\* the user's actions and the registry's answers within one minute
NextLoading ==
    \/ Mount
    \/ \E url \in RegistryUrls : HandleInputChange(url)
    \/ HandleLogin
    \/ HandleLogout
    \/ HandleRefresh
    \/ Answered

SpecAppFair == InitStored /\ [][NextLoading]_vars /\ WF_vars(Answered)

\* The hook under its consumers' calls of refreshImages
NextHook ==
    \/ TickClock
    \/ Mount
    \/ HandleLogin
    \/ HandleLogout
    \/ RefreshImages
    \/ \E resp \in CatalogResponses : AppCatalogResponse(resp)
    \/ \E i \in 1 .. 2, resp \in TagsResponses : AppTagsResponse(i, resp)

SpecHook == InitStored /\ [][NextHook]_vars

\* calculateCumulativeImageSize under the registry's answers and aborts
NextSize ==
    \/ \E n \in SizeImages, tags \in SizeTagLists, flag \in BOOLEAN : SizeStart(n, tags, flag)
    \/ \E i \in 1 .. 3, resp \in ManifestResponses : ManifestResponse(i, resp)
    \/ SizeAbort
    \/ SizeNewController

SpecSize == Init /\ [][NextSize]_vars

\* calculateCumulativeImageSize called again with the same and with other
\* arguments, over the lifetime of its cache entries
KeyTagLists == {<<"1">>, <<"1", "2">>, <<"1,2">>}

NextSizeKeys ==
    \/ \E n \in {"a", "b"}, tags \in KeyTagLists, flag \in BOOLEAN :
          SizeStart(n, tags, flag)
    \/ \E i \in 1 .. 2,
          resp \in {[kind |-> "ok",
                     body |-> Some(Manifest(0, "", Some(<<Layer("s", 500), Layer("x", 100)>>), 0))],
                    [kind |-> "status", status |-> 404]} :
          ManifestResponse(i, resp)
    \/ TickClock
    \/ TickLong

SpecSizeKeys == Init /\ [][NextSizeKeys]_vars

\* deleteImageTag in a session that has fetched and sized before
NextDelete ==
    \/ \E tag \in {"1", "2"}, forceRemove \in BOOLEAN : DeleteStart("a", tag, forceRemove)
    \/ \E resp \in DeleteManifestResponses : DeleteManifestResponse(resp)
    \/ \E resp \in DeleteResponses : DeleteResponse(resp)
    \/ TickClock
    \/ TickLong

\* the cache holds what the earlier calls of the session stored
InitSession ==
    /\ now = 0
    /\ cache \in StoredCaches
    /\ ret = [op |-> "init"]
    /\ wc = [c \in WCallers |-> IdleCall]
    /\ InitKeys /\ InitFetch /\ InitApp /\ InitSize /\ InitDelete /\ InitCalc

SpecDelete == InitSession /\ [][NextDelete]_vars

\* calculateImageSize over the manifests a registry can send
NextCalc == Calculate

InitManifests ==
    /\ InitCache /\ InitKeys /\ InitFetch /\ InitApp /\ InitSize /\ InitDelete
    /\ calc \in {[phase |-> "input", manifest |-> json] : json \in JsonManifests}

SpecCalc == InitManifests /\ [][NextCalc]_vars

\* Key generation
NextKey == GenerateKeys

InitPairs == InitCache /\ InitKeyPairs /\ InitFetch /\ InitApp /\ InitSize /\ InitDelete /\ InitCalc

SpecKey == InitPairs /\ [][NextKey]_vars

----------------------------------------------------------------------------
(* Claims about the cache *)

\* the ttl a caller gave, the default when it gave none
TtlGiven(ttl) == IF ttl = Undefined THEN defaultTTL ELSE ttl[1]

\* C1: withCache returns the value of a live entry without invoking compute;
\* with no live entry it invokes compute once, stores the result under the key
\* with the given ttl and returns it -- for every value compute can return.
C1_WithCacheContract ==
    \A c \in WCallers :
        /\ wc[c].pc = "computing" => ~wc[c].live
        /\ wc[c].pc = "returned" /\ wc[c].live =>
              wc[c].value = wc[c].liveData /\ wc[c].invoked = 0
        /\ wc[c].pc = "returned" /\ ~wc[c].live =>
              /\ wc[c].invoked = 1
              /\ ret.op = "resolve" /\ ret.caller = c =>
                    /\ wc[c].value = ret.computed
                    /\ ItemOf(cache, wc[c].req) =
                          Some([data |-> ret.computed, timestamp |-> now,
                                expiresAt |-> now + TtlGiven(wc[c].ttl)])

\* C1 for the values other than null: the same contract, for the calls whose
\* key holds no live null entry.
C1_WithCacheContractNonNull ==
    \A c \in WCallers :
        (wc[c].pc # "idle" /\ ~(wc[c].live /\ wc[c].liveData = Null)) =>
            /\ wc[c].pc = "computing" => ~wc[c].live
            /\ wc[c].pc = "returned" /\ wc[c].live =>
                  wc[c].value = wc[c].liveData /\ wc[c].invoked = 0
            /\ wc[c].pc = "returned" /\ ~wc[c].live =>
                  /\ wc[c].invoked = 1
                  /\ ret.op = "resolve" /\ ret.caller = c =>
                        /\ wc[c].value = ret.computed
                        /\ ItemOf(cache, wc[c].req) =
                              Some([data |-> ret.computed, timestamp |-> now,
                                    expiresAt |-> now + TtlGiven(wc[c].ttl)])

\* C3: two withCache calls for one key that both miss before either has stored
\* both invoke compute and both write the cache; the entry holds the value of
\* the call that finished last, and each caller receives its own compute's result.
C3_LastWriterWins ==
    \A c \in WCallers :
        /\ (wc[c].pc # "idle" /\ wc[c].overlaps # {} /\ ~wc[c].live) =>
              wc[c].invoked = 1
        /\ (ret.op = "resolve" /\ ret.caller = c) =>
              /\ wc[c].pc = "returned"
              /\ wc[c].value = ret.computed
              /\ KeyOf(wc[c].req) \in DOMAIN cache
              /\ cache[KeyOf(wc[c].req)].data = ret.computed

\* both calls missed together, both have finished with different values, and
\* the entry holds the value of the one that finished last
C3_Witness ==
    /\ ret.op = "resolve"
    /\ \E c, d \in WCallers :
          /\ c # d /\ ret.caller = c
          /\ wc[c].pc = "returned" /\ wc[d].pc = "returned"
          /\ wc[c].invoked = 1 /\ wc[d].invoked = 1
          /\ d \in wc[c].overlaps \/ c \in wc[d].overlaps
          /\ wc[c].value # wc[d].value
          /\ cache[KeyOf(wc[c].req)].data = wc[c].value

\* C4: get at a time after expiresAt returns null and removes the entry; get at
\* a time up to expiresAt returns the stored value.
C4_GetVisibleUntilExpiry ==
    (ret.op = "get" /\ ret.before # Undefined) =>
        IF now > ret.before[1].expiresAt
        THEN ret.value = Null /\ KeyOf(ret.req) \notin DOMAIN cache
        ELSE ret.value = ret.before[1].data /\ ItemOf(cache, ret.req) = ret.before

\* a get of an entry whose expiry has passed, and which held a value
C4_Witness ==
    /\ ret.op = "get" /\ ret.before # Undefined
    /\ now > ret.before[1].expiresAt
    /\ ret.before[1].data # Null
    /\ ret.value = Null

\* C5: set(key, value, ttl) at time t stores the value with expiresAt = t + ttl
\* for every ttl the caller passes, replacing any entry of the key; a get of
\* the key within the ttl returns the new value.
C5_SetStoresWithTtl ==
    (ret.op = "set" /\ ret.ttl # Undefined) =>
        /\ ItemOf(cache, ret.req) =
              Some([data |-> ret.data, timestamp |-> now,
                    expiresAt |-> now + ret.ttl[1]])
        /\ \A t \in now .. now + ret.ttl[1] :
              GetValue(cache, ret.req[1], ret.req[2], t) = ret.data

\* C6: after clear, get returns absent for every key stored before it, until
\* the key is set again.
C6_ClearMakesAbsent ==
    [][/\ ret'.op = "clear" =>
            \A r \in Requests : GetValue(cache', r[1], r[2], now') = Null
       /\ \A r \in Requests :
            (/\ GetValue(cache, r[1], r[2], now) = Null
             /\ GetValue(cache', r[1], r[2], now') # Null)
                => ret'.op = "set" /\ ret'.req = r]_vars

\* a clear of a cache that held a live value under every key
C6_Witness ==
    /\ ret.op = "clear"
    /\ ret.before = {KeyOf(r) : r \in Requests}
    /\ DOMAIN cache = {}

\* C8: two logically different requests never map to the same key and two
\* identical requests always map to the same key; two cumulative-size calls
\* collide only if they have the same repository, tag list and flag.
C8_KeysInjective ==
    q.phase = "keys" => (q.keyA = q.keyB <=> q.a = q.b)

\* C8 for tag names that hold no comma: the keys are injective
C8_KeysInjectiveWithoutComma ==
    (/\ q.phase = "keys"
     /\ \A r \in {q.a, q.b} :
            /\ r.kind = "manifest" => r.tag # "1,2"
            /\ r.kind = "cumulative" => \A i \in 1 .. Len(r.tags) : r.tags[i] # "1,2")
        => (q.keyA = q.keyB <=> q.a = q.b)

----------------------------------------------------------------------------
(* Claims about the registry service *)

\* C2: a fetchImageCatalog call made within the catalog TTL of the last fetched
\* catalog, with no clear in between, issues no request of its own and returns
\* the catalog the earlier call fetched
C2_CatalogFetchedOnce ==
    \A c \in FCallers :
        (/\ call[c].pc # "idle"
         /\ call[c].prior # Undefined
         /\ call[c].startedAt <= call[c].prior[1].at + CACHE_TTL_CATALOG)
        => /\ ~call[c].requested
           /\ call[c].catalogResp = CachedResponse(call[c].prior[1].value.items)
           /\ call[c].catalog = call[c].prior[1].value
           /\ (call[c].op = "catalog" /\ call[c].pc = "returned")
                 => call[c].result = call[c].prior[1].value.items

C2_Witness ==
    \E c \in FCallers :
        /\ call[c].op = "catalog"
        /\ call[c].pc = "returned"
        /\ call[c].prior # Undefined
        /\ call[c].startedAt = call[c].prior[1].at + CACHE_TTL_CATALOG
        /\ ~call[c].requested
        /\ call[c].result = <<"b", "a">>

\* the tags fetchAllImages is to report for a repository, given how the fetch
\* of its tags went
ReportedTags(resp) ==
    CASE resp.kind \in {"cached", "ok"} ->
            IF resp.body = Undefined THEN <<>> ELSE resp.body[1]
      [] OTHER -> <<>>

\* C9: fetchAllImages returns once every tag fetch has settled without
\* cancellation, with every catalog repository in the result, an empty tag
\* sequence for the repositories whose tag fetch failed and the fetched tags
\* for the others; it fails with a non-cancellation error only when the catalog
\* fetch failed, and with AbortError only when the token is aborted
C9_PerRepositoryIsolation ==
    \A c \in FCallers :
        call[c].op = "all" =>
            /\ call[c].pc = "returned" =>
                  /\ Len(call[c].result) = Len(call[c].catalog.items)
                  /\ \A i \in DOMAIN call[c].result :
                        /\ call[c].result[i].name = call[c].catalog.items[i]
                        /\ call[c].result[i].tags = ReportedTags(call[c].tasks[i].resp)
            /\ call[c].pc = "failed" =>
                  /\ call[c].catalogResp.kind \in {"status", "network"}
                  /\ call[c].error.name # "AbortError"
            /\ call[c].pc = "aborted" => call[c].tokenAborted
            /\ call[c].pc = "tags" =>
                  \E i \in DOMAIN call[c].tasks : call[c].tasks[i].st = "inflight"

C9_Witness ==
    \E c \in FCallers :
        /\ call[c].op = "all"
        /\ call[c].pc = "returned"
        /\ call[c].catalogResp.kind = "ok"
        /\ Len(call[c].result) = 2
        /\ \E i, j \in DOMAIN call[c].result :
              /\ call[c].tasks[i].resp.kind \in {"status", "network"}
              /\ call[c].result[i].tags = <<>>
              /\ call[c].tasks[j].resp.kind = "ok"
              /\ call[c].result[j].tags = <<"2", "10">>

\* C10: a fetchAllImages call whose token is aborted before it has returned
\* never returns an image list
C10_CancelledNeverReturns ==
    \A c \in FCallers :
        (call[c].op = "all" /\ call[c].pc = "returned") => ~call[c].tokenAborted

\* C10 for the calls that reach a catalog with a repository in it: a call
\* whose token is aborted before it has returned ends with AbortError
C10_CancelledUnlessCatalogEmpty ==
    \A c \in FCallers :
        (/\ call[c].op = "all"
         /\ call[c].pc = "returned"
         /\ call[c].catalog.items # <<>>)
        => ~call[c].tokenAborted

\* the repository names of the model in ascending order
NameRank(n) == CASE n = "a" -> 1 [] n = "b" -> 2

\* C11: the image list fetchAllImages returns is sorted by repository name
\* ascending
C11_SortedByName ==
    \A c \in FCallers :
        (call[c].op = "all" /\ call[c].pc = "returned")
        => \A i, j \in DOMAIN call[c].result :
              i < j => NameRank(call[c].result[i].name)
                          <= NameRank(call[c].result[j].name)

\* the numeric value of the tags of the model, all of them numeric-looking
TagNumber(t) == CASE t = "1" -> 1 [] t = "2" -> 2 [] t = "10" -> 10

\* C12: the tags of every image fetchAllImages returns are sorted, numeric-looking
\* tags descending by numeric value
C12_TagsSorted ==
    \A c \in FCallers :
        (call[c].op = "all" /\ call[c].pc = "returned")
        => \A k \in DOMAIN call[c].result :
              \A i, j \in DOMAIN call[c].result[k].tags :
                  i < j => TagNumber(call[c].result[k].tags[i])
                              >= TagNumber(call[c].result[k].tags[j])

\* C13: when the catalog or a tag-list request is answered with a non-2xx
\* status, the fetch fails with a RegistryApiError of that status; for the
\* catalog the call fails with that error, and the step stores nothing
C13_StatusPreserved ==
    [][\A c \in FCallers :
          /\ (call[c].pc = "catalog" /\ call'[c].catalogResp.kind = "status")
             => /\ call'[c].pc = "failed"
                /\ call'[c].error = RegistryApiError(call'[c].catalogResp.status)
                /\ call'[c].result = <<>>
                /\ cache' = cache
          /\ call[c].pc = "tags"
             => \A i \in DOMAIN call[c].tasks :
                   (/\ call[c].tasks[i].st = "inflight"
                    /\ call'[c].tasks[i].resp.kind = "status")
                   => /\ call'[c].tasks[i].error
                            = RegistryApiError(call'[c].tasks[i].resp.status)
                      /\ cache' = cache]_vars

C13_Witness ==
    \E c \in FCallers :
        /\ call[c].op = "all"
        /\ call[c].pc = "failed"
        /\ call[c].catalogResp = [kind |-> "status", status |-> 404]
        /\ call[c].error = RegistryApiError(404)
        /\ GenerateKey(CatalogUrl, Undefined) \notin DOMAIN cache

\* C14: aborting the token aborts every tag fetch in flight; a tag fetch that
\* completes or fails changes no other task and leaves the token as it is
C14_CancellationDownward ==
    [][\A c \in FCallers :
          call[c].pc = "tags" =>
             /\ (~signal[c] /\ signal'[c])
                => /\ call'[c].pc = "aborted"
                   /\ \A i \in DOMAIN call[c].tasks :
                         IF call[c].tasks[i].st = "inflight"
                         THEN /\ call'[c].tasks[i].st = "aborted"
                              /\ call'[c].tasks[i].error = AbortError
                         ELSE call'[c].tasks[i] = call[c].tasks[i]
             /\ call'[c].tasks # call[c].tasks /\ ~signal[c] /\ ~signal'[c]
                => \E i \in DOMAIN call[c].tasks :
                      /\ call[c].tasks[i].st = "inflight"
                      /\ call'[c].tasks[i].st = "done"
                      /\ \A j \in DOMAIN call[c].tasks :
                            j # i => call'[c].tasks[j] = call[c].tasks[j]
             /\ (\E i \in DOMAIN call[c].tasks :
                    /\ call[c].tasks[i].st = "inflight"
                    /\ call'[c].tasks[i].st = "done")
                => signal'[c] = signal[c]]_vars

C14_Witness ==
    \E c \in FCallers :
        /\ call[c].pc = "tags"
        /\ ~signal[c]
        /\ \E i, j \in DOMAIN call[c].tasks :
              /\ call[c].tasks[i].st = "done"
              /\ call[c].tasks[i].resp.kind \in {"status", "network"}
              /\ call[c].tasks[j].st = "inflight"

----------------------------------------------------------------------------
(* Claims about the cumulative size *)

\* a result that calculateCumulativeImageSize computed, not one it found cached
Computed == size.pc = "returned" /\ size.computed

\* the tags whose manifest was fetched, or found in the cache
Succeeded == {i \in DOMAIN size.tasks : size.tasks[i].resp.kind \in {"ok", "cached"}}

Failed == {i \in DOMAIN size.tasks : size.tasks[i].resp.kind \in {"status", "network"}}

ManifestOf(i) == size.tasks[i].resp.body[1]

RECURSIVE SumOfSizes(_)
SumOfSizes(I) ==
    IF I = {} THEN 0
    ELSE LET i == CHOOSE j \in I : TRUE
         IN  CalculateImageSize(ManifestOf(i)) + SumOfSizes(I \ {i})

\* the places (tag, position) of the layers of the fetched manifests
LayerPlaces ==
    {<<i, k>> \in Succeeded \X (1 .. 2) :
        /\ ManifestOf(i).layers # Undefined
        /\ k <= Len(ManifestOf(i).layers[1])}

LayerAt(p) == ManifestOf(p[1]).layers[1][p[2]]

FetchedDigests == {LayerAt(p).digest : p \in LayerPlaces}

ReportedSizes(d) == {LayerAt(p).size : p \in {pl \in LayerPlaces : LayerAt(pl).digest = d}}

\* C15: totalSize is the sum of calculateImageSize over the tags whose manifest
\* fetch succeeded, and tagSizes maps exactly those tags to their manifest's size
C15_TotalAndTagSizes ==
    Computed =>
        /\ size.result.totalSize = SumOfSizes(Succeeded)
        /\ DOMAIN size.result.tagSizes = {size.tags[i] : i \in Succeeded}
        /\ \A i \in Succeeded :
              size.result.tagSizes[size.tags[i]] = CalculateImageSize(ManifestOf(i))

C15_Witness ==
    /\ Computed
    /\ Cardinality(Succeeded) = 2
    /\ Failed # {}
    /\ size.result.totalSize = 710
    /\ size.result.tagSizes = ("1" :> 600 @@ "3" :> 110)

\* C16: with accountForSharedLayers, uniqueSize is the sum over the distinct
\* layer digests of the fetched manifests of a size reported for the digest,
\* each counted once; without it, uniqueSize is totalSize
C16_UniqueSize ==
    Computed =>
        IF size.flag
        THEN \E f \in [FetchedDigests -> UNION {ReportedSizes(d) : d \in FetchedDigests}] :
                /\ \A d \in FetchedDigests : f[d] \in ReportedSizes(d)
                /\ size.result.uniqueSize = SumValues(f)
        ELSE size.result.uniqueSize = size.result.totalSize

C16_Witness ==
    /\ Computed
    /\ size.flag
    /\ size.tags = <<"1", "2">>
    /\ FetchedDigests = {"s", "x", "y"}
    /\ size.result.totalSize = 1200
    /\ size.result.uniqueSize = 700
    /\ Cardinality(size.result.layerDigests) = 3

\* C17: with accountForSharedLayers, uniqueSize <= totalSize
C17_UniqueAtMostTotal ==
    (Computed /\ size.flag) => size.result.uniqueSize <= size.result.totalSize

C17_Witness ==
    /\ Computed
    /\ size.flag
    /\ Failed # {}
    /\ ReportedSizes("s") = {100, 500}
    /\ size.result.uniqueSize < size.result.totalSize

\* C18: with accountForSharedLayers, when no layer digest occurs in more than
\* one place, uniqueSize equals totalSize
C18_EqualWithoutRepeats ==
    (/\ Computed
     /\ size.flag
     /\ \A p1, p2 \in LayerPlaces : LayerAt(p1).digest = LayerAt(p2).digest => p1 = p2)
    => size.result.uniqueSize = size.result.totalSize

\* C19: layerDigests is the set of the distinct layer digests of the fetched
\* manifests with accountForSharedLayers, and empty without it
C19_LayerDigests ==
    Computed =>
        size.result.layerDigests = IF size.flag THEN FetchedDigests ELSE {}

\* C19 for the layers of non-zero size: layerDigests is the set of their digests
C19_LayerDigestsOfSizedLayers ==
    Computed =>
        size.result.layerDigests
            = IF size.flag
              THEN {LayerAt(p).digest : p \in {pl \in LayerPlaces : LayerAt(pl).size # 0}}
              ELSE {}

C13_ManifestStatusPreserved ==
    [][\A i \in DOMAIN size.tasks :
          (/\ size.pc = "manifests"
           /\ size.tasks[i].st = "inflight"
           /\ size'.tasks[i].resp.kind = "status")
          => /\ size'.tasks[i].error = RegistryApiError(size'.tasks[i].resp.status)
             /\ GenerateKey(ManifestUrl(size.imageName, size.tags[i]), Undefined)
                   \notin DOMAIN cache']_vars

\* the cumulative-size entry calculateCumulativeImageSize looks up for its
\* arguments
CumulativeKey(rec) ==
    GenerateKey(CumulativeUrl(rec.imageName), CumulativeParams(rec.tags, rec.flag))

\* the entry of the next call's arguments is live and was stored by a call
\* with the same three arguments
LiveForSameArguments ==
    /\ CumulativeKey(size') \in DOMAIN cache
    /\ ~Expired(cache[CumulativeKey(size')], now)
    /\ size.stored[CumulativeKey(size')]
          = Arguments(size'.imageName, size'.tags, size'.flag)

\* C21: a cumulative-size result is cached as a unit under repository, tag
\* list and shared-layer flag: a call with the same three arguments within
\* the entry's lifetime returns the stored result without any manifest
\* request, and a call is answered from an entry only if the call that stored
\* it had the same three arguments
C21_CachedPerArguments ==
    [][size'.calls = size.calls + 1 =>
          /\ LiveForSameArguments =>
                /\ size'.pc = "returned"
                /\ ~size'.computed
                /\ size'.tasks = <<>>
                /\ size'.result = cache[CumulativeKey(size')].data
          /\ (size'.pc = "returned" /\ ~size'.computed) =>
                size'.reused = Some(Arguments(size'.imageName, size'.tags, size'.flag))]_vars

\* C21 up to the joined tag text: a call is answered from an entry only if the
\* call that stored it had the same repository, the same flag and a tag list
\* with the same tags.join(',')
C21_ReusedWhenJoinedTagsAgree ==
    [][size'.calls = size.calls + 1 =>
          /\ LiveForSameArguments =>
                /\ size'.pc = "returned"
                /\ ~size'.computed
                /\ size'.tasks = <<>>
                /\ size'.result = cache[CumulativeKey(size')].data
          /\ (size'.pc = "returned" /\ ~size'.computed) =>
                /\ size'.reused[1].imageName = size'.imageName
                /\ size'.reused[1].flag = size'.flag
                /\ Join(size'.reused[1].tags) = Join(size'.tags)
          /\ (size'.computed /\ CumulativeKey(size') \in DOMAIN cache) =>
                Expired(cache[CumulativeKey(size')], now)]_vars

\* a second call with the arguments of the first is answered from the entry
\* at the last minute of its lifetime
C21_Reused ==
    /\ size.calls = 2
    /\ size.pc = "returned"
    /\ ~size.computed
    /\ size.reused = Some(Arguments(size.imageName, size.tags, size.flag))
    /\ now = cache[CumulativeKey(size)].expiresAt

----------------------------------------------------------------------------
(* Claims about calculateImageSize *)

\* config.size of the JSON, 0 when config or its size is absent
JsonConfigSize(json) ==
    IF json.config = Undefined THEN 0
    ELSE IF json.config[1].size = Undefined THEN 0
    ELSE json.config[1].size[1]

\* the sum of the sizes the layers of the JSON have
RECURSIVE JsonLayersSize(_)
JsonLayersSize(layers) ==
    IF layers = <<>> THEN 0
    ELSE (IF Head(layers).size = Undefined THEN 0 ELSE Head(layers).size[1])
         + JsonLayersSize(Tail(layers))

\* C26: for a manifest with a layers array calculateImageSize returns
\* config.size (0 when absent) plus the sum of the sizes of the layers (0 for
\* a layer without size), a number in every case
C26_ConfigPlusLayers ==
    (calc.phase = "done" /\ calc.manifest.layers # Undefined) =>
        /\ calc.result \in Nat
        /\ calc.result
              = JsonConfigSize(calc.manifest) + JsonLayersSize(calc.manifest.layers[1])

\* config.size 100 with layers of 200 and 300 gives 600
C26_Witness ==
    /\ calc.phase = "done"
    /\ calc.manifest.config = Some([digest |-> "c", size |-> Some(100)])
    /\ calc.manifest.layers
          = Some(<<JsonLayer("s", Some(200)), JsonLayer("x", Some(300))>>)
    /\ calc.result = 600

\* C27: for a manifest with a direct size and no layers array
\* calculateImageSize returns that size, whatever config.size is; with neither
\* layers nor size it returns config.size, or 0
C27_DirectSize ==
    (calc.phase = "done" /\ calc.manifest.layers = Undefined) =>
        /\ calc.manifest.size # Undefined => calc.result = calc.manifest.size[1]
        /\ calc.manifest.size = Undefined => calc.result = JsonConfigSize(calc.manifest)

\* C27 for a direct size other than 0; a direct size of 0 is treated as absent
C27_DirectNonZeroSize ==
    (calc.phase = "done" /\ calc.manifest.layers = Undefined) =>
        /\ (calc.manifest.size # Undefined /\ calc.manifest.size # Some(0))
              => calc.result = calc.manifest.size[1]
        /\ calc.manifest.size \in {Undefined, Some(0)}
              => calc.result = JsonConfigSize(calc.manifest)

----------------------------------------------------------------------------
(* Claims about the deletion of a tag *)

\* the entries get can return at time t
LiveEntries(m, t) == [k \in {j \in DOMAIN m : ~Expired(m[j], t)} |-> m[k]]

ManifestFetchFailed == del.manifestResp.kind \in {"status", "network"}

DeleteRequestFailed == del.deleteResp.kind \in {"status", "network"}

\* C22: a deletion that is not forced and whose manifest fetch fails ends with
\* the error of that fetch, issues no DELETE request and leaves every entry the
\* cache can return as it was when the call was made
C22_ManifestFailureFailsDeletion ==
    (~del.forceRemove /\ ManifestFetchFailed) =>
        /\ del.pc = "failed"
        /\ del.manifestResp.kind = "status"
              => del.error = RegistryApiError(del.manifestResp.status)
        /\ del.manifestResp.kind = "network" => del.error = PlainError
        /\ del.deleteUrl = ""
        /\ del.deleteResp = NoResponse
        /\ LiveEntries(cache, now) = LiveEntries(del.before, now)

\* the manifest of tag 1 had expired while the tag list was live, and the
\* registry answered the manifest request with 404
C22_Witness ==
    /\ ~del.forceRemove
    /\ del.pc = "failed"
    /\ del.manifestResp = [kind |-> "status", status |-> 404]
    /\ del.tag = "1"
    /\ GenerateKey(ManifestUrl("a", "1"), Undefined) \in DOMAIN del.before
    /\ GenerateKey(CumulativeUrl("a"), CumulativeParams(<<"1">>, TRUE)) \in DOMAIN cache
    /\ ~Expired(cache[GenerateKey(CumulativeUrl("a"), CumulativeParams(<<"1">>, TRUE))], now)

\* the entries deleteImageTag is to invalidate: the tag list, the manifest of
\* the tag and the cumulative sizes of the repository
Invalidated ==
    /\ GetValue(cache, TagsUrl(del.imageName), Undefined, now) = Null
    /\ GetValue(cache, ManifestUrl(del.imageName, del.tag), Undefined, now) = Null
    /\ \A tags \in KeyTagLists, flag \in BOOLEAN :
          GetValue(cache, CumulativeUrl(del.imageName), CumulativeParams(tags, flag), now)
              = Null

\* C23: a forced deletion whose manifest fetch or DELETE request fails still
\* returns success, with the cache entries of the repository invalidated
C23_ForcedDeletionSucceeds ==
    (/\ del.forceRemove
     /\ ~DeleteInFlight(del)
     /\ ManifestFetchFailed \/ DeleteRequestFailed)
    => (del.pc = "returned" /\ Invalidated)

\* deleteImageTag has one behaviour, whatever the caller wishes: a failed
\* manifest fetch or DELETE request fails the deletion
C23_EveryFailureFails ==
    (~DeleteInFlight(del) /\ (ManifestFetchFailed \/ DeleteRequestFailed))
    => (del.pc = "failed" /\ del.error # NoError)

\* C24: a deletion that is not forced and whose DELETE request is answered
\* with a non-2xx status fails with a RegistryApiError of that status, whose
\* message is the one about the registry not allowing deletion exactly when
\* the status is 405 (and so is the text handleDeleteTag shows); no entry the
\* cache could return when the call was made is removed
C24_DeleteStatusFailsDeletion ==
    (~del.forceRemove /\ del.deleteResp.kind = "status") =>
        /\ del.pc = "failed"
        /\ del.error.name = "RegistryApiError"
        /\ del.error.status = del.deleteResp.status
        /\ (del.error.message = NotAllowedMessage) <=> (del.deleteResp.status = 405)
        /\ (del.deleteError = Str(NotAllowedText)) <=> (del.deleteResp.status = 405)
        /\ ~del.isDeleting
        /\ \A k \in DOMAIN LiveEntries(del.before, now) :
              k \in DOMAIN cache /\ cache[k] = del.before[k]

C24_Witness ==
    /\ ~del.forceRemove
    /\ del.pc = "failed"
    /\ del.deleteResp = [kind |-> "status", status |-> 405]
    /\ del.manifestResp.kind = "ok"
    /\ DOMAIN LiveEntries(del.before, now)
          = {GenerateKey(TagsUrl("a"), Undefined), GenerateKey(CatalogUrl, Undefined),
             GenerateKey(ManifestUrl("a", "1"), Undefined),
             GenerateKey(CumulativeUrl("a"), CumulativeParams(<<"1">>, TRUE))}

\* C25: after a deletion has returned success the cache can return neither the
\* tag list of the repository, nor the manifest of the tag, nor any
\* cumulative-size result of the repository
C25_InvalidatedAfterSuccess ==
    del.pc = "returned" => Invalidated

\* C25 for the tag list and the manifest: both are removed
C25_TagListAndManifestRemoved ==
    del.pc = "returned" =>
        /\ GenerateKey(TagsUrl(del.imageName), Undefined) \notin DOMAIN cache
        /\ GenerateKey(ManifestUrl(del.imageName, del.tag), Undefined) \notin DOMAIN cache

\* the cumulative-size entries are left: the key removed has no params part
C25_CumulativeEntriesKept ==
    del.pc = "returned" =>
        \A tags \in KeyTagLists, flag \in BOOLEAN :
            LET key == GenerateKey(CumulativeUrl(del.imageName), CumulativeParams(tags, flag))
            IN  key \in DOMAIN del.before => key \in DOMAIN cache

----------------------------------------------------------------------------
(* Claims about the application *)

AppUrls == {CatalogUrl} \cup {TagsUrl(n) : n \in {"a", "b"}}

Served(url) == GetValue(cache, url, Undefined, now) # Null

\* C7: after handleLogout, and after handleRefresh, no entry stored earlier is
\* served from the cache
C7_ClearedOnLogoutAndRefresh ==
    ret.op \in {"handleLogout", "handleRefresh"}
        => \A url \in AppUrls : ~Served(url)

\* C7 for handleRefresh alone: after it no entry stored earlier is served
C7_ClearedOnRefresh ==
    ret.op = "handleRefresh" => \A url \in AppUrls : ~Served(url)

----------------------------------------------------------------------------
(* Claims about a call that follows a cancelled one *)

\* the caller's call was cancelled, its token has been replaced, and the
\* caller starts a new call
StartsAfterCancelled(c) ==
    /\ call[c].pc = "aborted"
    /\ ~signal[c]
    /\ call'[c] # call[c]

\* C30: a new call under a fresh token after a cancellation is independent of
\* the cancelled call and issues its own requests: it is not answered from
\* the catalog the cancelled call had fetched
C30_IndependentOfCancelled ==
    [][\A c \in FCallers :
          (StartsAfterCancelled(c) /\ call[c].catalogResp.kind = "ok")
          => call'[c].requested]_vars

\* C30 as the cache allows it: a new call under a fresh token after a
\* cancellation is not ended by the earlier abort, and it issues its own
\* request for exactly what the cache does not hold live, the entries the
\* cancelled call stored included; a call ends aborted only under an aborted
\* token of its own
C30_FreshCallUsesLiveEntries ==
    [][\A c \in FCallers :
          /\ call'[c].pc = "aborted" => call'[c].tokenAborted
          /\ StartsAfterCancelled(c) =>
                /\ call'[c].pc # "aborted"
                /\ ~call'[c].tokenAborted
                /\ call'[c].requested
                      = (GetValue(cache, CatalogUrl, Undefined, now) = Null)
                /\ call'[c].requested =>
                      /\ call'[c].pc = "catalog"
                      /\ call'[c].tasks = <<>>
                /\ ~call'[c].requested =>
                      /\ call'[c].catalog = GetValue(cache, CatalogUrl, Undefined, now)
                      /\ \A i \in DOMAIN call'[c].tasks :
                            LET stored == GetValue(cache, TagsUrl(call'[c].tasks[i].name),
                                                   Undefined, now)
                            IN  /\ (call'[c].tasks[i].st = "inflight") = (stored = Null)
                                /\ stored # Null =>
                                      /\ call'[c].tasks[i].st = "done"
                                      /\ call'[c].tasks[i].tags = stored.items]_vars

\* a call made under a fresh token after a call that was cancelled once it had
\* stored the catalog [b, a]: it has returned images built from that catalog
\* without a catalog request of its own
C30_Witness ==
    \E c \in FCallers :
        /\ call[c].after = "cancelled after the catalog"
        /\ call[c].op = "all"
        /\ call[c].pc = "returned"
        /\ ~call[c].tokenAborted
        /\ ~call[c].requested
        /\ call[c].catalogResp.kind = "cached"
        /\ Len(call[c].result) = 2
        /\ \E i \in DOMAIN call[c].tasks : call[c].tasks[i].resp.kind = "ok"

----------------------------------------------------------------------------
(* Claims about the hook's tokens *)

\* C28: a cancelled call is never shown as an error: imagesError never holds
\* an AbortError, the step in which the hook's call ends aborted leaves
\* imagesError as it was, and the AbortError of the HTTP primitive is the
\* error of the aborted tags task, of the aborted catalog request and of the
\* aborted fetchAllImages call
C28_CancelledNeverSurfaced ==
    [][/\ app'.imagesError.name # "AbortError"
       /\ (call'[Hook].pc = "aborted" /\ call'[Hook] # call[Hook]) =>
             /\ app'.imagesError = app.imagesError
             /\ ~app'.isLoadingImages
       /\ call'[Hook].pc = "aborted" => call'[Hook].error = AbortError
       /\ call'[Hook].catalogResp.kind = "abort" =>
             /\ call'[Hook].pc = "aborted"
             /\ call'[Hook].error = AbortError
       /\ \A i \in DOMAIN call'[Hook].tasks :
             call'[Hook].tasks[i].st = "aborted" =>
                /\ call'[Hook].tasks[i].error = AbortError
                /\ call'[Hook].pc = "aborted"
       /\ call'[Hook].error.name = "AbortError" => call'[Hook].pc = "aborted"]_vars

\* a logout aborted the tags request of b after that of a had failed
C28_Witness ==
    /\ call[Hook].pc = "aborted"
    /\ ~app.authenticated
    /\ Len(call[Hook].tasks) = 2
    /\ call[Hook].tasks[1].resp.kind = "status"
    /\ call[Hook].tasks[2].error = AbortError
    /\ app.imagesError = NoError
    /\ ~app.isLoadingImages

\* C29: of the tokens the hook has issued at most one is un-cancelled at any
\* moment, the one of its AbortController ref; a fetchImages that issues a new
\* token has aborted the one before
C29_OneLiveToken ==
    /\ app.unaborted <= 1
    /\ app.unaborted = IF app.controller THEN 1 ELSE 0
    /\ app.controller => ~signal[Hook]
    /\ InFlight(call[Hook]) => app.controller

\* a refresh after a call that returned images: the token of that call is
\* aborted and the new call runs under the only un-cancelled token
C29_Witness ==
    /\ app.controller
    /\ app.unaborted = 1
    /\ ret.op = "handleRefresh"
    /\ InFlight(call[Hook])
    /\ app.images # <<>>

----------------------------------------------------------------------------
(* Claims about the order in which requests complete *)

\* the tags a settled tags request gives its repository: the list of a 2xx
\* answer or of the cache, none for a request that failed
TagsFetched(resp) ==
    CASE resp.kind = "cached" -> resp.body[1]
      [] resp.kind = "ok" -> IF resp.body = Undefined THEN <<>> ELSE resp.body[1]
      [] OTHER -> <<>>

\* C31: whatever the order in which the tags requests of fetchAllImages
\* complete, the array it returns has one image per repository of the
\* catalog, at the repository's position, with the tags fetched for that
\* repository
C31_ImagesInCatalogOrder ==
    \A c \in FCallers :
        (call[c].op = "all" /\ call[c].pc = "returned") =>
            /\ Len(call[c].result) = Len(call[c].catalog.items)
            /\ \A i \in DOMAIN call[c].result :
                  /\ call[c].result[i].name = call[c].catalog.items[i]
                  /\ call[c].result[i].tags = TagsFetched(call[c].tasks[i].resp)

\* the catalog was [b, a] and the tags of a arrived, and were stored, before
\* those of b: the images are b with its tags, then a with its tags
C31_Witness ==
    \E c \in FCallers :
        /\ call[c].op = "all"
        /\ call[c].pc = "returned"
        /\ call[c].catalog = Arr(<<"b", "a">>)
        /\ \A i \in 1 .. 2 : call[c].tasks[i].resp.kind = "ok"
        /\ GenerateKey(TagsUrl("a"), Undefined) \in DOMAIN cache
        /\ GenerateKey(TagsUrl("b"), Undefined) \in DOMAIN cache
        /\ call[c].startedAt <= cache[GenerateKey(TagsUrl("a"), Undefined)].timestamp
        /\ cache[GenerateKey(TagsUrl("a"), Undefined)].timestamp
              < cache[GenerateKey(TagsUrl("b"), Undefined)].timestamp
        /\ call[c].result = << [name |-> "b", tags |-> <<"2", "10">>],
                               [name |-> "a", tags |-> <<"1">>] >>

\* the accumulators of a call had its manifests arrived in the order of its
\* tags
RECURSIVE InTagOrder(_, _)
InTagOrder(rec, i) ==
    IF i = 0
    THEN [rec EXCEPT !.tagSizes = EmptyMap, !.allLayers = EmptyMap, !.totalSize = 0]
    ELSE IF rec.tasks[i].st = "done"
    THEN Accumulate(InTagOrder(rec, i - 1), i, rec.tasks[i].manifest)
    ELSE InTagOrder(rec, i - 1)

\* the sizes the manifests of a call report for a digest
SizesReported(rec, digest) ==
    {rec.tasks[i].manifest.layers[1][j].size :
        <<i, j>> \in {p \in (DOMAIN rec.tasks) \X (1 .. 2) :
                        /\ rec.tasks[p[1]].st = "done"
                        /\ rec.tasks[p[1]].manifest.layers # Undefined
                        /\ p[2] \in DOMAIN rec.tasks[p[1]].manifest.layers[1]
                        /\ rec.tasks[p[1]].manifest.layers[1][p[2]].digest = digest
                        /\ rec.tasks[p[1]].manifest.layers[1][p[2]].size # 0}}

Digests == {"s", "x", "y", "z"}

\* C32 as claimed: the result of a computed calculateCumulativeImageSize is
\* the one it has when the manifests arrive in the order of the tags, whatever
\* order they arrived in and whatever sizes they report for a shared digest
C32_IndependentOfCompletionOrder ==
    (size.pc = "returned" /\ size.computed) =>
        size.result = SizeResult(InTagOrder(size, Len(size.tasks)))

\* C32 amended: totalSize, tagSizes and layerDigests are those of the tag
\* order for every completion order, and so is uniqueSize when the manifests
\* agree on the size of each digest; a manifest that arrives overwrites the
\* sizes recorded for its digests, so that a digest with conflicting sizes
\* counts with the size of the manifest that arrived last
C32_OrderShowsOnlyInConflicts ==
    [][/\ (size'.pc = "returned" /\ size'.computed) =>
             LET inOrder == SizeResult(InTagOrder(size', Len(size'.tasks)))
             IN  /\ size'.result.totalSize = inOrder.totalSize
                 /\ size'.result.tagSizes = inOrder.tagSizes
                 /\ size'.result.layerDigests = inOrder.layerDigests
                 /\ size'.result.uniqueSize = UniqueSize(size')
                 /\ (\A d \in Digests : Cardinality(SizesReported(size', d)) <= 1) =>
                        size'.result.uniqueSize = inOrder.uniqueSize
       /\ \A i \in DOMAIN size.tasks :
             (/\ size.pc = "manifests" /\ size.flag
              /\ size.tasks[i].st = "inflight"
              /\ size'.tasks[i].st = "done"
              /\ size'.tasks[i].manifest.layers # Undefined) =>
                 LET layers == size'.tasks[i].manifest.layers[1]
                 IN  /\ \A j \in DOMAIN layers :
                           (layers[j].digest # "" /\ layers[j].size # 0) =>
                               /\ layers[j].digest \in DOMAIN size'.allLayers
                               /\ size'.allLayers[layers[j].digest] = layers[j].size
                     /\ \A d \in DOMAIN size.allLayers :
                           (\A j \in DOMAIN layers : layers[j].digest # d) =>
                               size'.allLayers[d] = size.allLayers[d]]_vars

\* the manifest of tag 2 (s: 100) arrived before that of tag 1 (s: 500, x:
\* 100): s counts with 500, where in the order of the tags it counts with 100
C32_Witness ==
    /\ size.pc = "returned"
    /\ size.computed
    /\ size.flag
    /\ size.tags = <<"1", "2">>
    /\ size.tasks[1].manifest = Manifest(0, "", Some(<<Layer("s", 500), Layer("x", 100)>>), 0)
    /\ size.tasks[2].manifest = Manifest(10, "c", Some(<<Layer("s", 100)>>), 0)
    /\ size.result.uniqueSize = 600
    /\ size.result.totalSize = 710
    /\ SizeResult(InTagOrder(size, 2)).uniqueSize = 200

----------------------------------------------------------------------------
(* Claims about the request deleteImageTag makes *)

\* the digest of the manifest document the registry serves for a tag (its
\* Docker-Content-Digest): the digest of another blob than the image config
ContentDigest(imageName, tag) == "manifest of " \o imageName \o ":" \o tag

\* C33 as claimed: the DELETE request of deleteImageTag goes to the manifest's
\* own content digest resolved for the repository and tag
C33_DeleteByContentDigest ==
    del.deleteUrl # "" =>
        del.deleteUrl = ManifestUrl(del.imageName, ContentDigest(del.imageName, del.tag))

\* what the code does: the DELETE request goes to the digest of the config
\* blob named in the manifest
C33_DeleteByConfigDigest ==
    del.deleteUrl # "" =>
        /\ del.manifest # Null
        /\ del.deleteUrl = ManifestUrl(del.imageName, del.manifest.configDigest)
        /\ del.manifest.configDigest # ContentDigest(del.imageName, del.tag)

----------------------------------------------------------------------------
(* Claims about failed computations and the cache *)

Rejections == {"status", "network", "abort"}

\* C34: a catalog or tags request that is rejected (non-2xx status, transport
\* failure or abort) stores nothing: the step in which it is rejected leaves
\* the cache as it is, the lookup that preceded it left every entry that can
\* be returned as it was, and the next call finds no entry for the key and
\* issues the request again
C34_RejectedComputeStoresNothing ==
    [][\A c \in FCallers :
          /\ (call[c].pc = "catalog" /\ call'[c].catalogResp.kind \in Rejections)
                => /\ cache' = cache
                   /\ call'[c].pc \in {"failed", "aborted"}
          /\ (/\ call[c].pc = "tags"
              /\ call'[c] # call[c]
              /\ \A i \in DOMAIN call[c].tasks :
                    call[c].tasks[i].st = "inflight" =>
                        call'[c].tasks[i].resp.kind \in Rejections \cup {"none"})
                => cache' = cache
          /\ (~InFlight(call[c]) /\ call'[c] # call[c])
                => /\ LiveEntries(cache', now) = LiveEntries(cache, now)
                   /\ call[c].catalogResp.kind \in Rejections => call'[c].requested
                   /\ \A i \in DOMAIN call[c].tasks, j \in DOMAIN call'[c].tasks :
                         (/\ call[c].tasks[i].resp.kind \in {"status", "network"}
                          /\ call'[c].tasks[j].name = call[c].tasks[i].name
                          /\ ~signal[c])
                            => call'[c].tasks[j].st = "inflight"]_vars

\* fetchAllImages returned after the tags request of b was answered 500 and
\* that of a was answered with [1]: the tags of a are stored, nothing is
\* stored for b
C34_Witness ==
    \E c \in FCallers :
        /\ call[c].op = "all"
        /\ call[c].pc = "returned"
        /\ call[c].catalog = Arr(<<"b", "a">>)
        /\ call[c].tasks[1].resp = [kind |-> "status", status |-> 500]
        /\ call[c].tasks[2].resp = [kind |-> "ok", body |-> Some(<<"1">>)]
        /\ GenerateKey(TagsUrl("b"), Undefined) \notin DOMAIN cache
        /\ GenerateKey(TagsUrl("a"), Undefined) \in DOMAIN cache
        /\ GenerateKey(CatalogUrl, Undefined) \in DOMAIN cache

\* C35: calculateCumulativeImageSize stores every result it computes,
\* degraded or not, for CACHE_TTL.CUMULATIVE; a call with the same arguments
\* while that entry is live returns the stored result and requests no
\* manifest, those that had failed included
C35_DegradedResultCached ==
    [][/\ (size' # size /\ size'.pc = "returned" /\ size'.computed) =>
             /\ CumulativeKey(size') \in DOMAIN cache'
             /\ cache'[CumulativeKey(size')].data = size'.result
             /\ cache'[CumulativeKey(size')].expiresAt = now + CACHE_TTL_CUMULATIVE
             /\ DOMAIN size'.result.tagSizes =
                   {size'.tags[i] : i \in {j \in DOMAIN size'.tasks :
                                              size'.tasks[j].st = "done"}}
       /\ (size'.calls = size.calls + 1 /\ LiveForSameArguments) =>
             /\ size'.pc = "returned"
             /\ ~size'.computed
             /\ size'.tasks = <<>>
             /\ size'.result = cache[CumulativeKey(size')].data
             /\ cache' = cache]_vars

\* the manifest of tag 2 was answered 404 and the result, with the size of
\* tag 1 only, was stored; a second call with the same arguments in the last
\* minute of the entry returned it, and no manifest of tag 2 is stored
C35_Witness ==
    /\ size.calls = 2
    /\ size.pc = "returned"
    /\ ~size.computed
    /\ size.tags = <<"1", "2">>
    /\ size.reused = Some(Arguments(size.imageName, size.tags, size.flag))
    /\ DOMAIN size.result.tagSizes = {"1"}
    /\ size.result.totalSize = 600
    /\ now = cache[CumulativeKey(size)].expiresAt
    /\ GenerateKey(ManifestUrl(size.imageName, "2"), Undefined) \notin DOMAIN cache

----------------------------------------------------------------------------
(* Claims about invalidation while requests are in flight *)

\* fetchAllImages holds the catalog entry in the cache from the moment it
\* issues its tags requests, and no lookup of the catalog is made while they
\* are in flight: the entry is missing only if clearCache has run since the
\* requests were issued
ClearedInFlight(c) ==
    /\ call[c].pc = "tags"
    /\ GenerateKey(CatalogUrl, Undefined) \notin DOMAIN cache

\* the tags requests are issued with the catalog entry in the cache
C36_CatalogHeldWhenTagsRequested ==
    [][\A c \in FCallers :
          (call[c].pc # "tags" /\ call'[c].pc = "tags") =>
              GenerateKey(CatalogUrl, Undefined) \in DOMAIN cache']_vars

\* C36 as claimed: after clearCache has run, a tags request that was issued
\* before it stores nothing in the cache
C36_InvalidationNotUndone ==
    [][\A c \in FCallers :
          ClearedInFlight(c) => DOMAIN cache' \subseteq DOMAIN cache]_vars

----------------------------------------------------------------------------
(* Claims about the loading flag and the images of the hook *)

\* C37 as claimed: isLoadingImages is true whenever the hook's most recent
\* fetchImages call has not finished
C37_LoadingWhileInFlight ==
    InFlight(call[Hook]) => app.isLoadingImages

C39_LoadingFinishes ==
    /\ InFlight(call[Hook]) ~> ~InFlight(call[Hook])
    /\ app.isLoadingImages ~> ~app.isLoadingImages
    /\ [][(InFlight(call[Hook]) /\ ~InFlight(call'[Hook])) =>
             /\ call'[Hook].pc \in {"returned", "failed", "aborted"}
             /\ ~app'.isLoadingImages
             /\ call'[Hook].pc = "returned" =>
                   /\ app'.images = call'[Hook].result
                   /\ app'.imagesError = app.imagesError
             /\ call'[Hook].pc = "failed" =>
                   /\ app'.images = app.images
                   /\ app'.imagesError = call'[Hook].error
                   /\ app'.imagesError # NoError
             /\ call'[Hook].pc = "aborted" =>
                   /\ app'.images = app.images
                   /\ app'.imagesError = app.imagesError]_vars

\* a call ended with the tags request of b failed and that of a answered: the
\* images are shown and nothing is loading
C39_Witness ==
    /\ call[Hook].pc = "returned"
    /\ call[Hook].requested
    /\ Len(call[Hook].tasks) = 2
    /\ call[Hook].tasks[1].resp.kind = "network"
    /\ call[Hook].tasks[2].resp.kind = "ok"
    /\ app.images = call[Hook].result
    /\ ~app.isLoadingImages
    /\ app.imagesError = NoError

----------------------------------------------------------------------------
(* Claims about a manifest without a config digest *)

\* C40: when the manifest deleteImageTag has fetched or found cached carries
\* no config digest, the call fails with the digest error, no DELETE request
\* is made, and every entry of the cache but the manifest of the tag, the tag
\* list and the cumulative sizes of the repository among them, is as it was
\* when the call was made
C40_NoDigestFailsBeforeDelete ==
    (del.manifest # Null /\ del.manifest.configDigest = "") =>
        /\ del.pc = "failed"
        /\ del.error = DigestError
        /\ del.deleteUrl = ""
        /\ del.deleteResp = NoResponse
        /\ ~del.isDeleting
        /\ \A k \in (DOMAIN cache \cup DOMAIN del.before)
                    \ {GenerateKey(ManifestUrl(del.imageName, del.tag), Undefined)} :
              /\ k \in DOMAIN cache
              /\ k \in DOMAIN del.before
              /\ cache[k] = del.before[k]

\* the manifest fetched for tag 1 of a had no config digest: the deletion
\* failed with the tag list of a and its cumulative size still stored
C40_Witness ==
    /\ del.pc = "failed"
    /\ del.error = DigestError
    /\ del.manifestResp.kind = "ok"
    /\ del.imageName = "a"
    /\ del.tag = "1"
    /\ GenerateKey(TagsUrl("a"), Undefined) \in DOMAIN cache
    /\ GenerateKey(CumulativeUrl("a"), CumulativeParams(<<"1">>, TRUE)) \in DOMAIN cache
    /\ GenerateKey(ManifestUrl("a", "1"), Undefined) \in DOMAIN cache

====
